---- MODULE Spec2Model ----
(***************************************************************************)
(* API-Documenter: the scan pipeline from parsed Routes to the assembled   *)
(* OpenAPI document.                                                       *)
(*                                                                         *)
(*   cli scan action  ->  AIAnalyzer.analyzeBatch / analyzeRoute           *)
(*                    ->  Generator.generateSpec                           *)
(*                                                                         *)
(* Text is a sequence of fragments.  A character of a route path is one    *)
(* fragment ("/", ":", "u", ...); a string literal of the code is kept as  *)
(* one fragment ("List ").  JavaScript values are records tagged by t, so  *)
(* that null, undefined, strings, arrays and objects stay distinct.        *)
(***************************************************************************)
EXTENDS Integers, Sequences, FiniteSets, TLC

(* ---------------------------- bounds ----------------------------------- *)

\* characters of a path after its leading "/"
MaxPathLen == 4
\* routes handed to analyzeBatch in one run
MaxRoutes == 4
\* entries of the directory the scanner is given
MaxEntries == 2
\* statements of a file the parser is given
MaxCalls == 2
\* the arguments of a call expression
MaxArgs == 3
\* the literal segments of a template literal
MaxQuasis == 3
\* the members of the JSON object of a response text
MaxMembers == 2
\* change events of the spec file whose reload has not finished
MaxChanges == 2

(* ------------------------- JavaScript values --------------------------- *)

Undefined == [t |-> "undefined"]
Null == [t |-> "null"]
Str(s) == [t |-> "string", v |-> s]
Arr(items) == [t |-> "array", items |-> items]
Obj(fields) == [t |-> "object", fields |-> fields]
Num(n) == [t |-> "number", n |-> n]
Bool(b) == [t |-> "boolean", b |-> b]

\* the empty object {}
EmptyFields == [k \in {} |-> Undefined]

\* JavaScript truthiness, as used by the || defaults
Truthy(v) ==
  CASE v.t = "undefined" -> FALSE
    [] v.t = "null" -> FALSE
    [] v.t = "string" -> v.v # <<>>
    [] v.t = "number" -> v.n # 0
    [] v.t = "boolean" -> v.b
    [] OTHER -> TRUE

\* property read obj.name: undefined for a missing key or a primitive
Get(obj, name) ==
  IF obj.t = "object" /\ name \in DOMAIN obj.fields
  THEN obj.fields[name]
  ELSE Undefined

\* a || b
OrElse(a, b) == IF Truthy(a) THEN a ELSE b

(* ------------------------------ paths ---------------------------------- *)

PathChars == {"/", ":", "u", "i"}
\* the characters matched by \w among those of the paths of the model
WordChars == {"u", "i", "p", "a", "r", "m", "0", "1", "2", "3", "k", "e", "y"}

Includes(s, c) == \E k \in DOMAIN s : s[k] = c

\* String.prototype.split('/')
RECURSIVE Split(_)
Split(s) ==
  IF ~Includes(s, "/")
  THEN <<s>>
  ELSE LET k == CHOOSE j \in DOMAIN s : s[j] = "/" /\ \A h \in 1..(j - 1) : s[h] # "/"
       IN <<SubSeq(s, 1, k - 1)>> \o Split(SubSeq(s, k + 1, Len(s)))

IsPathPart(part) == part # <<>> /\ part[1] # ":"

\* route.path.split('/').filter(part => part && !part.startsWith(':'))
pathParts(path) == SelectSeq(Split(path), IsPathPart)

toUpperCase(c) ==
  CASE c = "u" -> "U"
    [] c = "i" -> "I"
    [] c = "get" -> "GET"
    [] c = "post" -> "POST"
    [] c = "put" -> "PUT"
    [] c = "delete" -> "DELETE"
    [] c = "patch" -> "PATCH"
    [] c = "options" -> "OPTIONS"
    [] c = "head" -> "HEAD"
    [] OTHER -> c

\* the matches of /:(\w+)/g in s, left to right, each without its colon
RECURSIVE MatchParams(_)
MatchParams(s) ==
  IF \E k \in 1..(Len(s) - 1) : s[k] = ":" /\ s[k + 1] \in WordChars
  THEN LET k == CHOOSE j \in 1..(Len(s) - 1) :
                  /\ s[j] = ":" /\ s[j + 1] \in WordChars
                  /\ \A h \in 1..(j - 1) : ~(s[h] = ":" /\ s[h + 1] \in WordChars)
           e == CHOOSE j \in (k + 1)..Len(s) :
                  /\ \A h \in (k + 1)..j : s[h] \in WordChars
                  /\ (j = Len(s) \/ s[j + 1] \notin WordChars)
       IN <<SubSeq(s, k + 1, e)>> \o MatchParams(SubSeq(s, e + 1, Len(s)))
  ELSE <<>>

PathParam(name) ==
  Obj([name |-> Str(name), in |-> Str(<<"path">>), required |-> Bool(TRUE),
       type |-> Str(<<"string">>)])

extractParameters(routePath) ==
  LET names == MatchParams(routePath)
  IN [k \in DOMAIN names |-> PathParam(names[k])]

httpMethods == {"GET", "POST", "PUT", "DELETE", "PATCH", "OPTIONS", "HEAD"}

toLowerCase(m) ==
  CASE m = "GET" -> "get"
    [] m = "POST" -> "post"
    [] m = "PUT" -> "put"
    [] m = "DELETE" -> "delete"
    [] m = "PATCH" -> "patch"
    [] m = "OPTIONS" -> "options"
    [] m = "HEAD" -> "head"
    [] m = "Get" -> "get"
    [] m = "Temp" -> "temp"
    [] m = "README" -> "readme"
    [] m = "LICENSE" -> "license"
    [] OTHER -> m

\* the Route record that Parser.extractRoute builds for a verb and a path
extractRoute(method, path) ==
  [method |-> method, path |-> path, parameters |-> Arr(extractParameters(path))]

Paths == { <<"/">> \o s : s \in UNION { [1..n -> PathChars] : n \in 0..MaxPathLen } }

AllRoutes == { extractRoute(m, p) : m \in httpMethods, p \in Paths }

(* ----------------------- template strategy ----------------------------- *)

\* the first part taken for the last
firstResourceOf(path, default) ==
  LET parts == pathParts(path)
  IN IF parts = <<>> THEN <<default>> ELSE parts[1]

\* pathParts[pathParts.length - 1] || default
resourceOf(path, default) ==
  LET parts == pathParts(path)
  IN IF parts = <<>> THEN <<default>> ELSE parts[Len(parts)]

generateDefaultSummary(route) ==
  LET resource == resourceOf(route.path, "resource")
  IN CASE route.method = "GET" ->
            IF Includes(route.path, ":")
            THEN Str(<<"Get ">> \o resource)
            ELSE Str(<<"List ">> \o resource \o <<"s">>)
       [] route.method = "POST" -> Str(<<"Create ">> \o resource)
       [] route.method = "PUT" -> Str(<<"Update ">> \o resource)
       [] route.method = "PATCH" -> Str(<<"Update ">> \o resource)
       [] route.method = "DELETE" -> Str(<<"Delete ">> \o resource)
       [] OTHER -> Str(<<route.method, " ">> \o resource)

generateDefaultDescription(route) ==
  LET resource == resourceOf(route.path, "resource")
  IN CASE route.method = "GET" ->
            IF Includes(route.path, ":")
            THEN Str(<<"Retrieve a specific ">> \o resource \o <<" by ID">>)
            ELSE Str(<<"Retrieve a list of ">> \o resource \o <<"s">>)
       [] route.method = "POST" -> Str(<<"Create a new ">> \o resource)
       [] route.method = "PUT" -> Str(<<"Update an existing ">> \o resource)
       [] route.method = "PATCH" -> Str(<<"Partially update an existing ">> \o resource)
       [] route.method = "DELETE" -> Str(<<"Delete a ">> \o resource)
       [] OTHER -> Str(<<"Perform ", route.method, " operation on ">> \o resource)

inferTag(path) ==
  LET parts == pathParts(path)
  IN IF Len(parts) > 0
     THEN Str(<<toUpperCase(parts[1][1])>> \o Tail(parts[1]))
     ELSE Str(<<"API">>)

\* a request schema for every verb but GET
hasBodyUnlessGet(method) == method # "GET"

\* ['POST', 'PUT', 'PATCH'].includes(route.method)
hasBody(method) == method \in {"POST", "PUT", "PATCH"}

\* A leaf such as { type: 'string', description: 'Name field' } is written as
\* the one fragment "string: Name field".

\* the request schema literal of generateFallbackAnalysis
FallbackRequestSchema ==
  Obj([type |-> Str(<<"object">>),
       properties |-> Obj([name |-> Str(<<"string: Name field">>),
                           id |-> Str(<<"string: Identifier">>)]),
       required |-> Arr(<<Str(<<"name">>)>>)])

\* the properties literal of the response schema of generateFallbackAnalysis
FallbackResponseProperties ==
  Obj([id |-> Str(<<"string: Unique identifier">>),
       name |-> Str(<<"string: Name">>),
       createdAt |-> Str(<<"string: date-time">>)])

ExampleItem == Obj([id |-> Str(<<"1">>), name |-> Str(<<"Example item">>)])

generateFallbackAnalysis(route) ==
  LET isList == route.method = "GET" /\ ~Includes(route.path, ":")
  IN Obj([summary |-> generateDefaultSummary(route),
          description |-> generateDefaultDescription(route),
          requestSchema |-> IF hasBody(route.method) THEN FallbackRequestSchema ELSE Null,
          responseSchema |->
            Obj([type |-> IF isList THEN Str(<<"array">>) ELSE Str(<<"object">>),
                 properties |-> IF isList THEN Undefined ELSE FallbackResponseProperties]),
          parameters |-> OrElse(route.parameters, Arr(<<>>)),
          tags |-> Arr(<<inferTag(route.path)>>),
          examples |->
            Obj([request |-> IF hasBody(route.method)
                             THEN Obj([name |-> Str(<<"Example name">>)])
                             ELSE Obj(EmptyFields),
                 response |-> IF isList THEN Arr(<<ExampleItem>>) ELSE ExampleItem]),
          statusCodes |->
            Obj([c \in {200, 201, 204, 400, 404, 500} |->
                   CASE c = 200 -> IF route.method = "DELETE" THEN Undefined ELSE Str(<<"Success">>)
                     [] c = 201 -> IF route.method = "POST" THEN Str(<<"Created successfully">>) ELSE Undefined
                     [] c = 204 -> IF route.method = "DELETE" THEN Str(<<"Deleted successfully">>) ELSE Undefined
                     [] c = 400 -> Str(<<"Bad request">>)
                     [] c = 404 -> IF Includes(route.path, ":") THEN Str(<<"Not found">>) ELSE Undefined
                     [] c = 500 -> Str(<<"Internal server error">>)])])

(* ------------------------ generative strategy -------------------------- *)

\* one attempt too many
maxRetriesOneMore == 3 + 1

\* for (let attempt = 1; attempt <= maxRetries; attempt++)
maxRetries == 3

Throw == [kind |-> "throw"]
Return(v) == [kind |-> "return", value |-> v]

\* enhanced.parameters.find(p => p.name === param.name); reading .name of a
\* null or undefined element is a TypeError
FindThrows(parameters) ==
  \E k \in DOMAIN parameters.items : parameters.items[k].t \in {"null", "undefined"}

HasNamed(parameters, param) ==
  \E k \in DOMAIN parameters.items : Get(parameters.items[k], "name") = Get(param, "name")

\* the added parameter located in the query
AddedQueryParam(param) ==
  Obj([name |-> Get(param, "name"),
       type |-> Str(<<"string">>),
       description |-> Str(Get(param, "name").v \o <<" identifier">>),
       required |-> Bool(TRUE),
       in |-> Str(<<"query">>)])

\* enhanced.parameters.push({ name, type, description, required, in })
AddedParam(param) ==
  Obj([name |-> Get(param, "name"),
       type |-> Str(<<"string">>),
       description |-> Str(Get(param, "name").v \o <<" identifier">>),
       required |-> Bool(TRUE),
       in |-> Str(<<"path">>)])

\* route.parameters.forEach(param => { if (!find) enhanced.parameters.push(..) })
\* from element k of routeParams on; a completion
RECURSIVE addPathParameters(_, _, _)
addPathParameters(parameters, routeParams, k) ==
  IF k > Len(routeParams)
  THEN Return(parameters)
  ELSE IF parameters.t # "array" \/ FindThrows(parameters)
       THEN Throw
       ELSE IF HasNamed(parameters, routeParams[k])
            THEN addPathParameters(parameters, routeParams, k + 1)
            ELSE addPathParameters(Arr(Append(parameters.items, AddedParam(routeParams[k]))),
                                   routeParams, k + 1)

\* a forgotten default: the field as the payload has it
withoutDefault(value, default) == value

\* analysis.field || default
withDefault(value, default) == OrElse(value, default)

DefaultResponseSchema == Obj([type |-> Str(<<"object">>)])
DefaultExamples == Obj([request |-> Obj(EmptyFields), response |-> Obj(EmptyFields)])
DefaultStatusCodes == Obj([c \in {200} |-> Str(<<"Success">>)])

\* a completion: reading a property of null or undefined throws
validateAndEnhanceAnalysis(analysis, route) ==
  IF analysis.t \in {"null", "undefined"}
  THEN Throw
  ELSE LET requestSchema == withDefault(Get(analysis, "requestSchema"), Null)
           enhanced ==
             [summary |-> withDefault(Get(analysis, "summary"), generateDefaultSummary(route)),
              description |-> withDefault(Get(analysis, "description"), generateDefaultDescription(route)),
              requestSchema |-> IF route.method = "GET" /\ Truthy(requestSchema)
                                THEN Null ELSE requestSchema,
              responseSchema |-> withDefault(Get(analysis, "responseSchema"), DefaultResponseSchema),
              parameters |-> withDefault(Get(analysis, "parameters"), Arr(<<>>)),
              tags |-> withDefault(Get(analysis, "tags"), Arr(<<inferTag(route.path)>>)),
              examples |-> withDefault(Get(analysis, "examples"), DefaultExamples),
              statusCodes |-> withDefault(Get(analysis, "statusCodes"), DefaultStatusCodes)]
           added == IF Truthy(route.parameters) /\ Len(route.parameters.items) > 0
                    THEN addPathParameters(enhanced.parameters, route.parameters.items, 1)
                    ELSE Return(enhanced.parameters)
       IN IF added.kind = "throw"
          THEN Throw
          ELSE Return(Obj([enhanced EXCEPT !.parameters = added.value]))

\* What one call of groq.chat.completions.create gives: the call rejects
\* (transport error, timeout, quota), the message has no content, the
\* content is text that parseJSON(extractJSON(content)) cannot parse, or it
\* is text that parses to the JSON value json.
Reject == [kind |-> "reject", json |-> Undefined]
NoContent == [kind |-> "empty", json |-> Undefined]
Unparseable == [kind |-> "unparseable", json |-> Undefined]
Parsed(json) == [kind |-> "json", json |-> json]

SampleRequestSchema ==
  Obj([type |-> Str(<<"object">>), properties |-> Obj([email |-> Str(<<"string">>)])])
SampleResponseSchema ==
  Obj([type |-> Str(<<"object">>), properties |-> Obj([id |-> Str(<<"string">>)])])

Payloads ==
  { Null,
    Num(5),
    Obj(EmptyFields),
    Obj([summary |-> Str(<<"Get user by ID">>),
         description |-> Str(<<"Retrieve a specific user by their ID">>),
         tags |-> Arr(<<Str(<<"Users">>)>>),
         parameters |-> Arr(<<Obj([name |-> Str(<<"i">>), type |-> Str(<<"string">>),
                                   description |-> Str(<<"User ID">>),
                                   required |-> Bool(TRUE), in |-> Str(<<"path">>)])>>),
         statusCodes |-> Obj([c \in {200, 404} |->
                                IF c = 200 THEN Str(<<"User found">>)
                                ELSE Str(<<"User not found">>)])]),
    Obj([summary |-> Str(<<"Save user">>),
         description |-> Str(<<"Stores a user">>),
         requestSchema |-> SampleRequestSchema,
         responseSchema |-> SampleResponseSchema,
         parameters |-> Arr(<<>>),
         tags |-> Arr(<<Str(<<"Users">>)>>),
         examples |-> Obj([request |-> Obj(EmptyFields), response |-> Obj(EmptyFields)]),
         statusCodes |-> Obj([c \in {201} |-> Str(<<"Saved">>)])]),
    Obj([summary |-> Str(<<>>), description |-> Null, requestSchema |-> Null,
         responseSchema |-> Null, parameters |-> Null, tags |-> Null,
         examples |-> Null, statusCodes |-> Null]),
    Obj([parameters |-> Str(<<"none">>)]),
    Obj([parameters |-> Arr(<<Null>>)]) }

Responses == {Reject, NoContent, Unparseable} \cup { Parsed(j) : j \in Payloads }

\* the body of the try block of analyzeRoute; a completion
tryAnalyze(route, response) ==
  IF response.kind \in {"reject", "empty", "unparseable"}
  THEN Throw
  ELSE validateAndEnhanceAnalysis(response.json, route)

\* the defaults of validateAndEnhanceAnalysis taken for the fallback
afterRetriesDefaults(route) == validateAndEnhanceAnalysis(Obj(EmptyFields), route)

\* console.warn(...); return this.generateFallbackAnalysis(route)
afterRetries(route) == Return(generateFallbackAnalysis(route))

(* ---------------------------- assembler -------------------------------- *)

\* An entry of analysisResults is [route |-> Route, analysis |-> Analysis].

\* a group that keeps only the first result of its path
groupFirstResultByPath(analysisResults) ==
  LET keys == { analysisResults[k].route.path : k \in DOMAIN analysisResults }
  IN [p \in keys |->
        <<analysisResults[CHOOSE k \in DOMAIN analysisResults :
                            /\ analysisResults[k].route.path = p
                            /\ \A h \in 1..(k - 1) : analysisResults[h].route.path # p]>>]

\* the paths of the results, each with its results in input order
groupResultsByPath(analysisResults) ==
  LET keys == { analysisResults[k].route.path : k \in DOMAIN analysisResults }
  IN [p \in keys |-> SelectSeq(analysisResults, LAMBDA result : result.route.path = p)]

OperationParameter(param) ==
  Obj([name |-> Get(param, "name"),
       in |-> OrElse(Get(param, "in"), Str(<<"path">>)),
       required |-> Bool(Get(param, "required") # Bool(FALSE)),
       schema |-> Obj([type |-> OrElse(Get(param, "type"), Str(<<"string">>))]),
       description |-> Get(param, "description")])

\* a completion: forEach of a value that is not an array, or a property read
\* of a null element, is a TypeError
generateParametersFromAnalysis(analysis) ==
  LET parameters == Get(analysis, "parameters")
  IN IF ~Truthy(parameters)
     THEN Return(Arr(<<>>))
     ELSE IF parameters.t # "array" \/ FindThrows(parameters)
          THEN Throw
          ELSE Return(Arr([k \in DOMAIN parameters.items |->
                             OperationParameter(parameters.items[k])]))

\* code.startsWith('2') for the decimal text of a three-digit status code
startsWith2(code) == code \div 100 = 2

\* Object.entries(v): the own keys of an object; a number or boolean has none
EntryKeys(v) == IF v.t = "object" THEN DOMAIN v.fields ELSE {}

\* { 'application/json': media }
JsonContent(media) == Obj([k \in {"application/json"} |-> media])

ResponseContent(analysis) ==
  JsonContent(Obj([schema |-> Get(analysis, "responseSchema"),
                   example |-> OrElse(Get(Get(analysis, "examples"), "response"),
                                      Obj(EmptyFields))]))

generateResponsesFromAnalysis(analysis) ==
  LET statusCodes == Get(analysis, "statusCodes")
  IN IF Truthy(statusCodes)
     THEN Obj([code \in EntryKeys(statusCodes) |->
                 IF startsWith2(code) /\ Truthy(Get(analysis, "responseSchema"))
                 THEN Obj([description |-> statusCodes.fields[code],
                           content |-> ResponseContent(analysis)])
                 ELSE Obj([description |-> statusCodes.fields[code]])])
     ELSE Obj([code \in {200} |->
                 Obj([description |-> Str(<<"Success">>),
                      content |-> JsonContent(
                                    Obj([schema |-> OrElse(Get(analysis, "responseSchema"),
                                                           DefaultResponseSchema)]))])])

\* DELETE taken for a verb with a body
acceptsBodyOrDelete(method) == method \in {"POST", "PUT", "PATCH", "DELETE"}

\* ['POST', 'PUT', 'PATCH'].includes(route.method)
acceptsBody(method) == method \in {"POST", "PUT", "PATCH"}

\* a completion
generateOperationFromAnalysis(route, analysis) ==
  LET parameters == generateParametersFromAnalysis(analysis)
      operation == [summary |-> Get(analysis, "summary"),
                    description |-> Get(analysis, "description"),
                    tags |-> Get(analysis, "tags"),
                    parameters |-> parameters.value,
                    responses |-> generateResponsesFromAnalysis(analysis)]
      requestBody == Obj([description |-> Str(<<"Request payload">>),
                          required |-> Bool(TRUE),
                          content |-> JsonContent(
                            Obj([schema |-> Get(analysis, "requestSchema"),
                                 example |-> OrElse(Get(Get(analysis, "examples"), "request"),
                                                    Obj(EmptyFields))]))])
  IN IF parameters.kind = "throw"
     THEN Throw
     ELSE IF acceptsBody(route.method) /\ Truthy(Get(analysis, "requestSchema"))
          THEN Return(Obj([k \in DOMAIN operation \cup {"requestBody"} |->
                             IF k = "requestBody" THEN requestBody ELSE operation[k]]))
          ELSE Return(Obj(operation))

generateSchemaName(route, suffix) ==
  LET resource == resourceOf(route.path, "Resource")
  IN <<toUpperCase(resource[1])>> \o Tail(resource) \o <<suffix>>

\* JSON.stringify(v), kept as the value it denotes: a key whose value is
\* undefined is left out, an undefined array element becomes null
RECURSIVE stringify(_)
stringify(v) ==
  CASE v.t = "object" ->
         Obj([k \in { f \in DOMAIN v.fields : v.fields[f].t # "undefined" } |->
                stringify(v.fields[k])])
    [] v.t = "array" ->
         Arr([k \in DOMAIN v.items |->
                IF v.items[k].t = "undefined" THEN Null ELSE stringify(v.items[k])])
    [] OTHER -> v

\* every schema registered, seen before or not
registerSchemaAlways(acc, route, schema, suffix) ==
  IF Truthy(schema)
  THEN LET schemaName == generateSchemaName(route, suffix)
       IN [schemas |-> [n \in DOMAIN acc.schemas \cup {schemaName} |->
                          IF n = schemaName THEN schema ELSE acc.schemas[n]],
           schemaMap |-> acc.schemaMap \cup {stringify(schema)}]
  ELSE acc

\* one schema of one result: components.schemas and schemaMap after it
registerSchema(acc, route, schema, suffix) ==
  IF Truthy(schema) /\ stringify(schema) \notin acc.schemaMap
  THEN LET schemaName == generateSchemaName(route, suffix)
       IN [schemas |-> [n \in DOMAIN acc.schemas \cup {schemaName} |->
                          IF n = schemaName THEN schema ELSE acc.schemas[n]],
           schemaMap |-> acc.schemaMap \cup {stringify(schema)}]
  ELSE acc

\* the forEach of extractReusableSchemas from result k on
RECURSIVE extractReusableSchemas(_, _, _)
extractReusableSchemas(analysisResults, acc, k) ==
  IF k > Len(analysisResults)
  THEN acc
  ELSE LET route == analysisResults[k].route
           analysis == analysisResults[k].analysis
           afterRequest == registerSchema(acc, route, Get(analysis, "requestSchema"), "Request")
           afterResponse == registerSchema(afterRequest, route,
                                           Get(analysis, "responseSchema"), "Response")
       IN extractReusableSchemas(analysisResults, afterResponse, k + 1)

NoSchemas == [schemas |-> [n \in {} |-> Undefined], schemaMap |-> {}]

\* the first result of pathResults with the verb
FirstWithMethod(pathResults, method) ==
  LET k == CHOOSE j \in DOMAIN pathResults :
             /\ pathResults[j].route.method = method
             /\ \A h \in 1..(j - 1) : pathResults[h].route.method # method
  IN pathResults[k]

\* the last result of pathResults with the verb: a later assignment to
\* paths[path][method] replaces an earlier one
LastWithMethod(pathResults, method) ==
  LET k == CHOOSE j \in DOMAIN pathResults :
             /\ pathResults[j].route.method = method
             /\ \A h \in (j + 1)..Len(pathResults) : pathResults[h].route.method # method
  IN pathResults[k]

\* a completion: the document, or the TypeError of an operation
generateSpec(analysisResults) ==
  LET groupedResults == groupResultsByPath(analysisResults)
      operationOf(result) == generateOperationFromAnalysis(result.route, result.analysis)
      methodsOf(path) == { groupedResults[path][k].route.method :
                             k \in DOMAIN groupedResults[path] }
      paths == [path \in DOMAIN groupedResults |->
                  Obj([verb \in { toLowerCase(m) : m \in methodsOf(path) } |->
                         LET m == CHOOSE mm \in methodsOf(path) : toLowerCase(mm) = verb
                         IN operationOf(LastWithMethod(groupedResults[path], m)).value])]
      components == extractReusableSchemas(analysisResults, NoSchemas, 1)
  IN IF \E k \in DOMAIN analysisResults : operationOf(analysisResults[k]).kind = "throw"
     THEN Throw
     ELSE Return(Obj([openapi |-> Str(<<"3.0.0">>),
                      paths |-> Obj(paths),
                      components |-> Obj([schemas |-> Obj(components.schemas),
                                          responses |-> Obj(EmptyFields),
                                          parameters |-> Obj(EmptyFields)])]))

(* ------------------------------ scanner -------------------------------- *)

\* A file or directory name is a sequence of fragments, "users.test.js" being
\* <<"users", ".", "test", ".", "js">>; a name is cut so that every
\* occurrence in it of a pattern of the scanner is a run of whole fragments.
\* A full path joins names with the fragment "/".

\* name.toLowerCase()
lowerCase(name) == [k \in DOMAIN name |-> toLowerCase(name[k])]

\* String.prototype.includes
Contains(s, p) == \E k \in 0..(Len(s) - Len(p)) : SubSeq(s, k + 1, k + Len(p)) = p

\* String.prototype.endsWith
EndsWith(s, p) == Len(s) >= Len(p) /\ SubSeq(s, Len(s) - Len(p) + 1, Len(s)) = p

\* options.include
include == { <<".", "js">>, <<".", "ts">> }

\* options.exclude
exclude ==
  { <<"node_modules">>, <<"__tests__">>, <<"coverage">>, <<"dist">>, <<"build">>,
    <<".", "git">>, <<".", "vscode">>, <<".", "idea">>, <<"logs">>, <<"tmp">>, <<"temp">>,
    <<".", "test", ".">>, <<".", "spec", ".">>, <<".", "min", ".">>, <<".", "bundle", ".">>,
    <<"package", ".", "json">>, <<"package-lock", ".", "json">>, <<"yarn", ".", "lock">>,
    <<".", "env">>, <<".", "git", "ignore">>, <<"README">>, <<"LICENSE">>,
    <<"webpack", ".">>, <<"babel", ".">>, <<"jest", ".">>, <<"tsconfig", ".">>,
    <<".", "eslintrc">>, <<".", "prettierrc">> }

isValidFile(filename) == \E ext \in include : EndsWith(filename, ext)

configPatterns ==
  { <<"package", ".", "json">>, <<"package-lock", ".", "json">>, <<"yarn", ".", "lock">>,
    <<"npm-shrinkwrap", ".", "json">>,
    <<"webpack", ".", "config", ".", "js">>, <<"webpack", ".", "prod", ".", "js">>,
    <<"webpack", ".", "dev", ".", "js">>,
    <<"babel", ".", "config", ".", "js">>, <<".", "babelrc", ".", "js">>,
    <<"jest", ".", "config", ".", "js">>, <<"jest", ".", "setup", ".", "js">>,
    <<"tsconfig", ".", "json">>, <<"tsconfig", ".", "build", ".", "json">>,
    <<".", "eslintrc", ".", "js">>, <<".", "eslintrc", ".", "json">>,
    <<".", "prettierrc", ".", "js">>, <<".", "prettierrc", ".", "json">>,
    <<"rollup", ".", "config", ".", "js">>, <<"vite", ".", "config", ".", "js">>,
    <<"tailwind", ".", "config", ".", "js">>, <<"postcss", ".", "config", ".", "js">> }

\* testPatterns (the unanchored ones, then the ones anchored at the end),
\* configPatterns, options.exclude
isExcludedFile(filename) ==
  \/ \E pattern \in { <<".", "test", ".">>, <<".", "spec", ".">> } :
       Contains(lowerCase(filename), pattern)
  \/ \E pattern \in { <<"test", ".", "js">>, <<"spec", ".", "js">>,
                       <<".", "test", ".", "js">>, <<".", "spec", ".", "js">>,
                       <<".", "test", ".", "ts">>, <<".", "spec", ".", "ts">>,
                       <<".", "min", ".", "js">>, <<".", "bundle", ".", "js">> } :
       EndsWith(lowerCase(filename), pattern)
  \/ lowerCase(filename) \in configPatterns
  \/ \E pattern \in exclude : Contains(lowerCase(filename), lowerCase(pattern))

excludeDirs ==
  { <<"node_modules">>, <<"__tests__">>, <<"coverage">>, <<"dist">>, <<"build">>,
    <<".", "git">>, <<".", "vscode">>, <<".", "idea">>, <<".", "nyc_output">>,
    <<"logs">>, <<"tmp">>, <<"temp">>, <<"cache">>,
    <<".", "next">>, <<".", "nuxt">>, <<".", "output">>,
    <<"public">>, <<"static">>, <<"assets">> }

isExcludedDirectory(dirname) ==
  \E pattern \in excludeDirs :
    \/ lowerCase(dirname) = lowerCase(pattern)
    \/ Contains(lowerCase(dirname), lowerCase(pattern))

\* An entry of a directory.  stat is whether statSync succeeds, readable
\* whether readFile (of a file) or readdir (of a directory) succeeds.
File(name, stat, size, readable, content) ==
  [kind |-> "file", name |-> name, stat |-> stat, size |-> size,
   readable |-> readable, content |-> content, entries |-> <<>>]

Directory(name, readable, entries) ==
  [kind |-> "dir", name |-> name, stat |-> TRUE, size |-> 0,
   readable |-> readable, content |-> <<>>, entries |-> entries]

\* stats.size > 1024 * 1024
sizeCeiling == 1024 * 1024

shouldProcessFile(file) ==
  /\ isValidFile(file.name)
  /\ ~isExcludedFile(file.name)
  /\ file.stat
  /\ ~(file.size > sizeCeiling)

\* The content of a file is the sequence of its statements, each a call
\* expression or a piece of text that is no JavaScript.  A regular expression
\* of the scanner is evaluated on the calls it can match: name\s*\( matches
\* a call of that name, object\. a member access on that object.
MemberCall(object, property, argument) ==
  [callee |-> "member", object |-> object, property |-> property, argument |-> argument]
FunctionCall(name, argument) ==
  [callee |-> "identifier", object |-> "", property |-> name, argument |-> argument]
SyntaxError ==
  [callee |-> "none", object |-> "", property |-> "",
   argument |-> [type |-> "none", quasis |-> <<>>, expressions |-> 0]]

StringLiteral(value) == [type |-> "StringLiteral", quasis |-> <<value>>, expressions |-> 0]
TemplateLiteral(quasis) ==
  [type |-> "TemplateLiteral", quasis |-> quasis, expressions |-> Len(quasis) - 1]

\* testPatterns.filter(pattern => pattern.test(content)).length
testKeywordCount(content) ==
  Cardinality({ name \in {"describe", "it", "test", "expect", "beforeEach", "afterEach",
                          "beforeAll", "afterAll"} :
                  \E k \in DOMAIN content :
                    content[k].callee # "none" /\ content[k].property = name })
  + Cardinality({ object \in {"jest", "chai", "should", "assert"} :
                    \E k \in DOMAIN content :
                      content[k].callee = "member" /\ content[k].object = object })

\* a file taken for a test only from three indicators on
looksLikeTestFileFromThree(content) == testKeywordCount(content) >= 2 + 1

looksLikeTestFile(content) == testKeywordCount(content) >= 2

\* of the configPatterns only the keyword pattern can match a sequence of
\* calls: webpack|babel|jest|eslint|prettier, case-insensitive
looksLikeConfigFile(content) ==
  \E k \in DOMAIN content :
    \/ toLowerCase(content[k].object) \in {"webpack", "babel", "jest", "eslint", "prettier"}
    \/ toLowerCase(content[k].property) \in {"webpack", "babel", "jest", "eslint", "prettier"}

\* routePatterns.some(pattern => pattern.test(content)): the patterns on
\* app., router. and fastify. with a verb, and .route('...')
matchesRoutePattern(content) ==
  \E k \in DOMAIN content :
    /\ content[k].callee = "member"
    /\ \/ /\ toLowerCase(content[k].object) \in {"app", "router", "fastify"}
          /\ toLowerCase(content[k].property) \in
               {"get", "post", "put", "delete", "patch", "head", "options"}
       \/ /\ toLowerCase(content[k].property) = "route"
          /\ content[k].argument.type = "StringLiteral"

containsRoutes(file) ==
  IF ~file.readable
  THEN FALSE
  ELSE IF looksLikeTestFile(file.content)
       THEN FALSE
       ELSE IF looksLikeConfigFile(file.content)
            THEN FALSE
            ELSE matchesRoutePattern(file.content)

\* path.join(dir, name)
join(dir, name) == dir \o <<"/">> \o name

\* the place of a fragment among the fragments of the paths findRouteFiles
\* can return, ordered by UTF-16 code unit
CodeUnitRank(fragment) ==
  LET order == <<".", "/", "api", "index", "js", "lib", "srv", "ts", "users">>
  IN CHOOSE k \in DOMAIN order : order[k] = fragment

\* the default comparison of Array.prototype.sort: a sorts before b
SortsBefore(a, b) ==
  \E k \in 1..(Len(a) + 1) :
    /\ k <= Len(b)
    /\ SubSeq(a, 1, k - 1) = SubSeq(b, 1, k - 1)
    /\ k > Len(a) \/ CodeUnitRank(a[k]) < CodeUnitRank(b[k])

\* the list as the walk pushed it
unsorted(files) == files

\* routeFiles.sort()
sort(files) == SortSeq(files, SortsBefore)

(* ------------------------------- parser -------------------------------- *)

\* the digit of a placeholder index
digit(n) == <<"0", "1", "2", "3">>[n + 1]

\* the placeholders numbered from 1
RECURSIVE templatePathCountedFromOne(_, _)
templatePathCountedFromOne(node, k) ==
  IF k > Len(node.quasis)
  THEN <<>>
  ELSE node.quasis[k]
         \o (IF k - 1 < node.expressions
             THEN <<":", "p", "a", "r", "a", "m", digit(k)>>
             ELSE <<>>)
         \o templatePathCountedFromOne(node, k + 1)

\* path += node.quasis[i].value.raw; if (i < node.expressions.length)
\* path += ':param' + i, from quasi k on (k counted from 1)
RECURSIVE templatePath(_, _)
templatePath(node, k) ==
  IF k > Len(node.quasis)
  THEN <<>>
  ELSE node.quasis[k]
         \o (IF k - 1 < node.expressions
             THEN <<":", "p", "a", "r", "a", "m", digit(k - 1)>>
             ELSE <<>>)
         \o templatePath(node, k + 1)

\* the path text of the first argument, or null
extractRoutePath(node) ==
  CASE node.type = "StringLiteral" -> Str(node.quasis[1])
    [] node.type = "TemplateLiteral" -> Str(templatePath(node, 1))
    [] OTHER -> Null

\* extractRoute for the call expression node: the routes it gives, none or one
extractRouteOfCall(node) ==
  IF node.callee = "member"
     /\ toLowerCase(node.property) \in { toLowerCase(m) : m \in httpMethods }
  THEN LET routePath == extractRoutePath(node.argument)
       IN IF Truthy(routePath)
          THEN <<extractRoute(toUpperCase(toLowerCase(node.property)), routePath.v)>>
          ELSE <<>>
  ELSE <<>>

\* traverse(ast, { CallExpression }): the routes of the calls from k on
RECURSIVE traverse(_, _)
traverse(content, k) ==
  IF k > Len(content)
  THEN <<>>
  ELSE extractRouteOfCall(content[k]) \o traverse(content, k + 1)

\* parser.parse(content) throws on text that is no JavaScript
parses(content) == \A k \in DOMAIN content : content[k].callee # "none"

\* the error of readFile or of parse let through to the caller
parseFileUncaught(file) ==
  IF ~file.readable \/ ~parses(file.content)
  THEN Throw
  ELSE Return(traverse(file.content, 1))

\* a completion: the routes of the file, [] when reading or parsing throws
parseFile(file) ==
  IF ~file.readable \/ ~parses(file.content)
  THEN Return(<<>>)
  ELSE Return(traverse(file.content, 1))

\* A node of the syntax tree other than the two literals above; source is
\* the text sourceCode.slice(node.start, node.end), with "\n" and runs of
\* blanks as fragments of their own.
Identifier(name) == [type |-> "Identifier", name |-> name, source |-> <<name>>]
\* a function expression or an arrow function expression
FunctionNode(type, params, async, source) ==
  [type |-> type, params |-> params, async |-> async, source |-> source]
\* a call with the callee node callee
CallExpression(callee, source) == [type |-> "CallExpression", callee |-> callee, source |-> source]
\* a literal with its source text
WithSource(literal, source) ==
  [f \in DOMAIN literal \cup {"source"} |-> IF f = "source" THEN source ELSE literal[f]]

\* object.property(arguments): node.arguments[0] is undefined in a call
\* without arguments
RouteCall(object, property, arguments) ==
  [callee |-> "member", object |-> object, property |-> property,
   argument |-> IF arguments = <<>> THEN SyntaxError.argument ELSE arguments[1],
   arguments |-> arguments]

Whitespace == {" ", "  ", "\n"}

\* code.split('\n')
RECURSIVE splitLines(_)
splitLines(code) ==
  IF ~Includes(code, "\n")
  THEN <<code>>
  ELSE LET k == CHOOSE n \in DOMAIN code : code[n] = "\n" /\ \A h \in 1..(n - 1) : code[h] # "\n"
       IN <<SubSeq(code, 1, k - 1)>> \o splitLines(SubSeq(code, k + 1, Len(code)))

\* String.prototype.trim()
RECURSIVE trim(_)
trim(text) ==
  IF text # <<>> /\ Head(text) \in Whitespace
  THEN trim(Tail(text))
  ELSE IF text # <<>> /\ text[Len(text)] \in Whitespace
       THEN trim(SubSeq(text, 1, Len(text) - 1))
       ELSE text

\* lines.join('\n')
RECURSIVE joinLines(_)
joinLines(lines) ==
  IF lines = <<>>
  THEN <<>>
  ELSE IF Len(lines) = 1
       THEN lines[1]
       ELSE lines[1] \o <<"\n">> \o joinLines(Tail(lines))

\* split, trim every line, drop the empty lines, join
formatCode(code) ==
  LET lines == splitLines(code)
      trimmed == [k \in DOMAIN lines |-> trim(lines[k])]
  IN joinLines(SelectSeq(trimmed, LAMBDA line : Len(line) > 0))

extractHandler(node) ==
  IF node.type \in {"FunctionExpression", "ArrowFunctionExpression"}
  THEN Obj([type |-> Str(<<"inline">>),
            params |-> Arr([k \in DOMAIN node.params |->
                              CASE node.params[k].type = "Identifier" ->
                                     Str(<<node.params[k].name>>)
                                [] node.params[k].type = "ObjectPattern" ->
                                     Str(<<"destructured">>)
                                [] OTHER -> Str(<<"unknown">>)]),
            async |-> Bool(node.async)])
  ELSE IF node.type = "Identifier"
       THEN Obj([type |-> Str(<<"reference">>), name |-> Str(<<node.name>>)])
       ELSE Null

\* the last argument is the handler node; every node the parser gives has a
\* start and an end, so its source text is sliced and formatted
extractHandlerWithCode(args) ==
  IF args = <<>>
  THEN [handler |-> Null, code |-> Null]
  ELSE LET handlerNode == args[Len(args)]
       IN [handler |-> extractHandler(handlerNode),
           code |-> Str(formatCode(handlerNode.source))]

\* the loop of extractMiddleware from argument k on (k counted from 1)
RECURSIVE middlewareFrom(_, _)
middlewareFrom(args, k) ==
  IF k > Len(args) - 1
  THEN <<>>
  ELSE (CASE args[k].type = "Identifier" -> <<Str(<<args[k].name>>)>>
          [] args[k].type = "CallExpression" /\ args[k].callee.type = "Identifier" ->
               <<Str(<<args[k].callee.name, "()">>)>>
          [] OTHER -> <<>>)
       \o middlewareFrom(args, k + 1)

\* for (let i = 1; i < args.length - 1; i++)
extractMiddleware(args) == Arr(middlewareFrom(args, 2))

\* extractRoute for a call expression with all its arguments: the Route, or
\* null.  The calls of the model have no leading comment, for which
\* extractDescription gives null.
extractRouteOfArguments(node) ==
  LET found == extractRouteOfCall(node)
  IN IF found = <<>>
     THEN Null
     ELSE LET handlerInfo == extractHandlerWithCode(node.arguments)
          IN Obj([method |-> Str(<<found[1].method>>),
                  path |-> Str(found[1].path),
                  handler |-> handlerInfo.handler,
                  handlerCode |-> handlerInfo.code,
                  middleware |-> extractMiddleware(node.arguments),
                  parameters |-> found[1].parameters,
                  description |-> Null])

(* --------------------------- response text ----------------------------- *)

\* The text of a service response is a sequence of fragments, cut so that
\* every brace, colon, newline, code fence and every occurrence of a word the
\* cleaning patterns look for is a fragment of its own.

\* the three grave accents of a code fence, as a fragment of text
fence == "<three grave accents>"

\* content.replace(/```json\n?/g, '')
RECURSIVE removeJsonFences(_)
removeJsonFences(text) ==
  IF text = <<>>
  THEN <<>>
  ELSE IF Len(text) >= 2 /\ text[1] = fence /\ text[2] = "json"
       THEN removeJsonFences(SubSeq(text, IF Len(text) >= 3 /\ text[3] = "\n" THEN 4 ELSE 3,
                                    Len(text)))
       ELSE <<text[1]>> \o removeJsonFences(Tail(text))

\* .replace(/```\n?/g, '')
RECURSIVE removeFences(_)
removeFences(text) ==
  IF text = <<>>
  THEN <<>>
  ELSE IF text[1] = fence
       THEN removeFences(SubSeq(text, IF Len(text) >= 2 /\ text[2] = "\n" THEN 3 ELSE 2,
                                Len(text)))
       ELSE <<text[1]>> \o removeFences(Tail(text))

\* jsonStr.indexOf(c) and jsonStr.lastIndexOf(c), counted from 1; 0 for -1
indexOf(text, c) ==
  IF Includes(text, c)
  THEN CHOOSE k \in DOMAIN text : text[k] = c /\ \A h \in 1..(k - 1) : text[h] # c
  ELSE 0
lastIndexOf(text, c) ==
  IF Includes(text, c)
  THEN CHOOSE k \in DOMAIN text : text[k] = c /\ \A h \in (k + 1)..Len(text) : text[h] # c
  ELSE 0

\* jsonStr.replace(/^.*?<words>.*?:/i, ''): the dot matches no newline, so
\* the match lies in the first line; it runs from the start over the first
\* occurrence of the words to the first colon after it
removePrefix(text, words) ==
  LET eol == indexOf(text, "\n")
      line == IF eol = 0 THEN text ELSE SubSeq(text, 1, eol - 1)
      matches == { ab \in (DOMAIN line) \X (DOMAIN line) :
                     line[ab[1]] \in words /\ ab[1] < ab[2] /\ line[ab[2]] = ":" }
  IN IF matches = {}
     THEN text
     ELSE LET first == CHOOSE ab \in matches :
                         \A cd \in matches :
                           ab[1] < cd[1] \/ (ab[1] = cd[1] /\ ab[2] <= cd[2])
          IN SubSeq(text, first[2] + 1, Len(text))

extractJSON(content) ==
  LET jsonStr == removeFences(removeJsonFences(content))
      startIndex == indexOf(jsonStr, "{")
      lastIndex == lastIndexOf(jsonStr, "}")
      bounded == IF startIndex # 0 /\ lastIndex # 0 /\ lastIndex > startIndex
                 THEN SubSeq(jsonStr, startIndex, lastIndex)
                 ELSE jsonStr
  IN trim(removePrefix(removePrefix(removePrefix(bounded, {"Here is", "here is"}),
                                    {"Based on", "based on"}),
                       {"Analysis", "analysis"}))

(* --------------------------- route detector ---------------------------- *)

\* The content RouteDetector classifies is a sequence of statements like the
\* content of a scanned file, with import declarations besides:
\* import name from 'module'.
ImportFrom(name, module) ==
  [callee |-> "import", object |-> name, property |-> "", argument |-> StringLiteral(module)]

\* frameworkPatterns[framework].imports: some pattern matches the statement
matchesImport(statement, framework) ==
  LET module == IF statement.argument.type = "StringLiteral"
                THEN statement.argument.quasis[1]
                ELSE <<>>
      required == statement.callee = "identifier" /\ statement.property = "require"
      imported == statement.callee = "import"
  IN CASE framework = "express" ->
            \/ (required \/ imported) /\ module = <<"express">>
            \/ imported /\ statement.object = "express"
       [] framework = "fastify" -> (required \/ imported) /\ module = <<"fastify">>
       [] framework = "koa" ->
            (required \/ imported) /\ module \in { <<"koa">>, <<"koa/router">>, <<"@koa/router">> }
       [] OTHER -> FALSE

\* frameworkPatterns[framework].routes, in order: a pattern matches the calls
\* of one of its properties on its object, on any object when it names none
routePatternsOf(framework) ==
  LET any(property) == [object |-> "", properties |-> {property}]
      verbs == {"get", "post", "put", "patch", "delete"}
  IN CASE framework = "express" ->
            << any("get"), any("post"), any("put"), any("patch"), any("delete"), any("all"),
               any("use"),
               [object |-> "app", properties |-> verbs \cup {"all", "use"}],
               [object |-> "router", properties |-> verbs \cup {"all", "use"}] >>
       [] framework = "fastify" ->
            << any("get"), any("post"), any("put"), any("patch"), any("delete"),
               [object |-> "fastify", properties |-> verbs],
               any("register") >>
       [] framework = "koa" ->
            << any("get"), any("post"), any("put"), any("patch"), any("delete"),
               [object |-> "router", properties |-> verbs] >>
       [] OTHER -> <<>>

\* frameworkPatterns[framework].confidence, in tenths
confidenceOf(framework) ==
  CASE framework = "express" -> [import |-> 8, route |-> 6]
    [] framework = "fastify" -> [import |-> 9, route |-> 7]
    [] framework = "koa" -> [import |-> 9, route |-> 6]
    [] OTHER -> [import |-> 8, route |-> 6]

\* content.match(new RegExp(routePattern.source, 'g')).length, 0 for null
matchCount(content, pattern) ==
  Cardinality({ k \in DOMAIN content :
                  /\ content[k].callee = "member"
                  /\ content[k].property \in pattern.properties
                  /\ pattern.object \in {"", content[k].object} })

\* the matches in content of genericRoutePatterns[n - 1]: a string literal
\* that starts with /api/, /v<digits>/, /user/ or /users/, /auth/, /login,
\* /register, /logout; res.json(, res.send(, response.json(, reply.send(;
\* ctx.body =, which no call expression matches
genericMatchCount(content, n) ==
  LET startsWith(statement, segments, slash) ==
        /\ statement.argument.type = "StringLiteral"
        /\ LET value == statement.argument.quasis[1]
           IN /\ Len(value) >= (IF slash THEN 3 ELSE 2)
              /\ value[1] = "/"
              /\ value[2] \in segments
              /\ slash => value[3] = "/"
      calls(object, property) ==
        Cardinality({ k \in DOMAIN content :
                        /\ content[k].callee = "member"
                        /\ content[k].object = object
                        /\ content[k].property = property })
      literals(segments, slash) ==
        Cardinality({ k \in DOMAIN content : startsWith(content[k], segments, slash) })
  IN CASE n = 1 -> literals({"api"}, TRUE)
       [] n = 2 -> literals({"v1", "v2"}, TRUE)
       [] n = 3 -> literals({"user", "users"}, TRUE)
       [] n = 4 -> literals({"auth"}, TRUE)
       [] n = 5 -> literals({"login"}, FALSE)
       [] n = 6 -> literals({"register"}, FALSE)
       [] n = 7 -> literals({"logout"}, FALSE)
       [] n = 8 -> calls("res", "json")
       [] n = 9 -> calls("res", "send")
       [] n = 10 -> calls("response", "json")
       [] n = 11 -> calls("reply", "send")
       [] OTHER -> 0

Min(a, b) == IF a < b THEN a ELSE b

\* one pass of the loop over frameworks for a framework that has patterns:
\* frameworkConfidence in tenths, routeCount and detectedPatterns
examineFramework(content, framework) ==
  LET patterns == routePatternsOf(framework)
      imported == \E k \in DOMAIN content : matchesImport(content[k], framework)
      matched == SelectSeq(patterns, LAMBDA pattern : matchCount(content, pattern) > 0)
      routeCountTo[n \in 0..Len(patterns)] ==
        IF n = 0 THEN 0 ELSE routeCountTo[n - 1] + matchCount(content, patterns[n])
      routeConfidenceTo[n \in 0..Len(patterns)] ==
        IF n = 0
        THEN 0
        ELSE routeConfidenceTo[n - 1]
               + confidenceOf(framework).route * Min(matchCount(content, patterns[n]), 3)
      apiPatternCount == Cardinality({ n \in 1..12 : genericMatchCount(content, n) > 0 })
  IN [frameworkConfidence |->
        (IF imported THEN confidenceOf(framework).import ELSE 0)
          + routeConfidenceTo[Len(patterns)]
          + (IF apiPatternCount > 0 THEN Min(apiPatternCount, 3) ELSE 0),
      routeCount |-> routeCountTo[Len(patterns)],
      detectedPatterns |->
        (IF imported THEN <<<<framework, "_import">>>> ELSE <<>>)
          \o [k \in DOMAIN matched |-> <<framework, "_routes">>]
          \o (IF apiPatternCount > 0 THEN <<<<"api_patterns">>>> ELSE <<>>)]

\* the object analyzeContent starts with
NoResults ==
  [hasRoutes |-> FALSE, framework |-> Null, confidence |-> 0, routeCount |-> 0,
   detectedPatterns |-> <<>>]

\* if (frameworkConfidence > results.confidence) { ... }: the confidence
\* stored is clamped to 1.0
updateResults(results, framework, score) ==
  IF score.frameworkConfidence > results.confidence
  THEN [framework |-> Str(<<framework>>),
        confidence |-> Min(score.frameworkConfidence, 10),
        routeCount |-> score.routeCount,
        detectedPatterns |-> score.detectedPatterns,
        hasRoutes |-> score.routeCount > 0 \/ score.frameworkConfidence > 5]
  ELSE results

\* the fallback after the loop: any route-like patterns
genericFallback(results, content) ==
  LET countTo[n \in 0..12] ==
        IF n = 0 THEN 0 ELSE countTo[n - 1] + genericMatchCount(content, n)
      genericRouteCount == countTo[12]
  IN IF ~results.hasRoutes /\ genericRouteCount > 2
     THEN [hasRoutes |-> TRUE,
           framework |-> Str(<<"unknown">>),
           confidence |-> Min(genericRouteCount, 5),
           routeCount |-> genericRouteCount,
           detectedPatterns |-> << <<"generic_routes">> >>]
     ELSE results

(* ---------------------------- file system ------------------------------ *)

\* path.resolve(process.cwd(), directory)
scanDir == <<"/", "srv">>

\* the files below the entries of directory dir, each with its full path and
\* the directories between the scan root and the file
RECURSIVE FilesBelow(_, _, _)
FilesBelow(entries, dir, above) ==
  UNION { IF entries[k].kind = "file"
          THEN {[path |-> join(dir, entries[k].name), file |-> entries[k], above |-> above]}
          ELSE IF entries[k].kind = "dir"
               THEN FilesBelow(entries[k].entries, join(dir, entries[k].name),
                               Append(above, entries[k]))
               ELSE {} : k \in DOMAIN entries }

\* the file a full path names in the tree root; reading a path that names
\* no file fails
FileAt(root, path) ==
  LET found == { f \in FilesBelow(root.entries, scanDir, <<>>) : f.path = path }
  IN IF found = {} THEN File(<<>>, FALSE, 0, FALSE, <<>>) ELSE (CHOOSE f \in found : TRUE).file

(* --------------------------- the scan run ------------------------------ *)

\* the analysis the scan action pairs with a route when AI is disabled
templateAnalysis(route) ==
  Obj([summary |-> Str(<<route.method, " ">> \o route.path),
       description |-> Str(<<"API endpoint">>),
       tags |-> Arr(<<Str(<<"API">>)>>),
       parameters |-> OrElse(route.parameters, Arr(<<>>)),
       statusCodes |-> DefaultStatusCodes])

\* the entry put in front
unshiftResult(results, route, analysis) ==
  <<[route |-> route, analysis |-> analysis]>> \o results

\* results.push({ route, analysis })
pushResult(results, route, analysis) ==
  Append(results, [route |-> route, analysis |-> analysis])

VARIABLES
  directoryExists,  \* fs.pathExists(scanDir)
  format,           \* options.format
  apiKey,           \* process.env.GROQ_API_KEY is set
  tree,             \* the directory scanDir names, with all below it
  stack,            \* searchDirectory: the directories being read, innermost last
  routeFiles,       \* the paths of the route files found
  fileNo,           \* parse loop: the file to parse next, from 1
  exitCode,         \* the exit code of the process, undefined while it runs
  output,           \* the file written to the output directory, or null
  ai,               \* options.ai !== false
  routes,           \* the parsed routes, in file and source order
  pc,               \* where the scan action is
  i,                \* analyzeBatch: the routes before the current batch
  j,                \* analyzeBatch: position in the current batch, from 1
  attempt,          \* analyzeRoute: the loop counter
  outcomes,         \* analyzeRoute: what each service request of the call in progress gave
  ret,              \* analyzeRoute: its completion
  analysisResults,  \* the {route, analysis} entries collected so far
  openApiSpec,      \* the assembled document
  call,             \* Parser.extractRoute: the call expression and the route it gives
  extraction,       \* AIAnalyzer.extractJSON: the response text and the text returned
  detection,        \* RouteDetector.analyzeContent: its arguments, loop position and results
  server            \* Server: the spec file, the served document and the watcher

\* what the run is given
config == <<directoryExists, format, apiKey, tree>>
\* the run up to the parsed routes
front == <<config, stack, routeFiles, fileNo, exitCode, output>>
\* analyzeBatch and the generator
analyzer == <<i, j, attempt, outcomes, ret, analysisResults, openApiSpec>>

\* the components a scan run does not use
apart == <<call, extraction, detection, server>>

vars == <<directoryExists, format, apiKey, tree, stack, routeFiles, fileNo, exitCode, output,
          ai, routes, pc, i, j, attempt, outcomes, ret, analysisResults, openApiSpec,
          call, extraction, detection, server>>

NoCompletion == [kind |-> "none"]

\* analyzeBatch (routes, batchSize = 3)
batchSize == 3

\* routes.slice(i, i + batchSize), i counted from 0
batch == SubSeq(routes, i + 1, IF i + batchSize < Len(routes) THEN i + batchSize ELSE Len(routes))

Route(method, path) == extractRoute(method, <<"/">> \o path)

\* routes of runs with several routes
RoutePool ==
  { Route("GET", <<"u">>), Route("POST", <<"u">>), Route("PUT", <<"i", "/", ":", "u">>) }

RouteLists == UNION { [1..n -> RoutePool] : n \in 0..MaxRoutes }

\* responses of runs with several routes
BatchResponses ==
  { Reject, Parsed(Obj(EmptyFields)), Parsed(Obj([parameters |-> Str(<<"none">>)])) }

\* the run before analyzeBatch or generateSpec has done anything
InitAnalysis ==
  /\ i = 0
  /\ j = 1
  /\ attempt = 1
  /\ outcomes = <<>>
  /\ ret = NoCompletion
  /\ analysisResults = <<>>
  /\ openApiSpec = Null

\* no call expression is being examined, no response text cleaned, no content
\* classified and no server constructed
InitApart ==
  /\ call = Null
  /\ extraction = Null
  /\ detection = Null
  /\ server = Null

\* the run has parsed the routes of routeLists
InitRun(routeLists) ==
  /\ directoryExists = TRUE
  /\ format = "json"
  /\ apiKey = TRUE
  /\ tree = Directory(<<>>, TRUE, <<>>)
  /\ stack = <<>>
  /\ routeFiles = <<>>
  /\ fileNo = 1
  /\ exitCode = Undefined
  /\ output = Null
  /\ ai \in BOOLEAN
  /\ routes \in routeLists
  /\ pc = "analyze"
  /\ InitAnalysis
  /\ InitApart

\* one route per run, every route
Init == InitRun({ <<r>> : r \in AllRoutes })

\* several routes per run
InitBatch == InitRun(RouteLists)

\* statements of the files of the model
AppGetUsers == MemberCall("app", "get", StringLiteral(<<"/", "u">>))
RouterPostUser == MemberCall("router", "post", StringLiteral(<<"/", "u", "/", ":", "i">>))
CacheGetKey == MemberCall("cache", "get", StringLiteral(<<"k", "e", "y">>))
Describe == FunctionCall("describe", StringLiteral(<<"u">>))

\* app.delete(`/u/${id}`), app.get(path), app.use('/u') and text that is no
\* JavaScript besides
Statements ==
  { AppGetUsers, RouterPostUser, CacheGetKey, Describe,
    MemberCall("app", "delete", TemplateLiteral(<< <<"/", "u", "/">>, <<>> >>)),
    MemberCall("app", "get", [type |-> "Identifier", quasis |-> <<>>, expressions |-> 0]),
    MemberCall("app", "use", StringLiteral(<<"/", "u">>)),
    SyntaxError }

\* a readable file of ordinary size
SourceFile(name, content) == File(name, TRUE, 2048, TRUE, content)

\* files of the directories the scanner walks
UsersJs == SourceFile(<<"users", ".", "js">>, <<AppGetUsers>>)
IndexTs == SourceFile(<<"index", ".", "ts">>, <<RouterPostUser, CacheGetKey>>)
\* describe( and it( next to an app.get( call
TestLikeTs ==
  SourceFile(<<"lib", ".", "ts">>,
             <<Describe, FunctionCall("it", StringLiteral(<<"u">>)), AppGetUsers>>)
\* describe( twice next to an app.get( call
OneIndicatorTs == SourceFile(<<"api", ".", "ts">>, <<Describe, Describe, AppGetUsers>>)

\* besides: an excluded name, an extension not included, a file of exactly
\* the size ceiling, one above it, one statSync fails on, one readFile fails
\* on, one without a route pattern
FilePool ==
  { UsersJs, IndexTs, TestLikeTs, OneIndicatorTs,
    SourceFile(<<"users", ".", "test", ".", "js">>, <<AppGetUsers>>),
    SourceFile(<<"users", ".", "md">>, <<AppGetUsers>>),
    File(<<"api", ".", "js">>, TRUE, sizeCeiling, TRUE, <<AppGetUsers>>),
    File(<<"lib", ".", "js">>, TRUE, sizeCeiling + 1, TRUE, <<AppGetUsers>>),
    File(<<"srv", ".", "ts">>, FALSE, 2048, TRUE, <<AppGetUsers>>),
    File(<<"srv", ".", "js">>, TRUE, 2048, FALSE, <<>>),
    SourceFile(<<"index", ".", "js">>, <<CacheGetKey>>) }

DirectoryPool ==
  { Directory(name, TRUE, entries) :
      name \in { <<"api">>, <<"lib">> }, entries \in { <<UsersJs>>, <<UsersJs, IndexTs>> } }
  \cup { Directory(name, FALSE, <<UsersJs>>) : name \in { <<"api">>, <<"lib">> } }
  \cup { Directory(name, TRUE, <<UsersJs>>) :
           name \in { <<"tmp">>, <<"Temp">>, <<"my_", "cache">> } }
  \cup { Directory(<<"api">>, TRUE, <<Directory(<<"tmp">>, TRUE, <<UsersJs>>), IndexTs>>) }

\* files, directories and an entry that is neither
EntryPool ==
  FilePool \cup DirectoryPool
    \cup { [kind |-> "other", name |-> <<"srv", ".", "sock">>, stat |-> TRUE, size |-> 0,
            readable |-> FALSE, content |-> <<>>, entries |-> <<>>] }

\* no two entries of a directory have the same name
DistinctNames(entries) ==
  \A a, b \in DOMAIN entries : a # b => entries[a].name # entries[b].name

\* the scan roots: up to MaxEntries entries in any order, or unreadable
Trees ==
  { Directory(<<>>, TRUE, entries) :
      entries \in { e \in UNION { [1..n -> EntryPool] : n \in 0..MaxEntries } :
                      DistinctNames(e) } }
  \cup { Directory(<<>>, FALSE, <<>>) }

\* the scanner is about to walk a tree
InitWalk ==
  /\ directoryExists = TRUE
  /\ format = "json"
  /\ apiKey = TRUE
  /\ tree \in Trees
  /\ stack = <<>>
  /\ routeFiles = <<>>
  /\ fileNo = 1
  /\ exitCode = Undefined
  /\ output = Null
  /\ ai = TRUE
  /\ routes = <<>>
  /\ pc = "scan"
  /\ InitAnalysis
  /\ InitApart

\* the directories whose files the parse loop is given: users.js with up to
\* MaxCalls statements or unreadable, alone or next to an index.ts that is
\* good, holds text that does not parse, or is unreadable
SourceTrees ==
  LET contents == UNION { [1..n -> Statements] : n \in 0..MaxCalls }
      first == { SourceFile(<<"users", ".", "js">>, content) : content \in contents }
                 \cup { File(<<"users", ".", "js">>, TRUE, 2048, FALSE, <<>>) }
      second == { SourceFile(<<"index", ".", "ts">>, <<RouterPostUser>>),
                  SourceFile(<<"index", ".", "ts">>, <<SyntaxError>>),
                  File(<<"index", ".", "ts">>, TRUE, 2048, FALSE, <<>>) }
  IN { Directory(<<>>, TRUE, <<f>>) : f \in first }
     \cup { Directory(<<>>, TRUE, <<f, g>>) : f \in first, g \in second }

\* the parse loop is about to parse the files of a directory, in sorted order
InitParse ==
  /\ directoryExists = TRUE
  /\ format = "json"
  /\ apiKey = TRUE
  /\ tree \in SourceTrees
  /\ stack = <<>>
  /\ routeFiles = sort([k \in DOMAIN tree.entries |-> join(scanDir, tree.entries[k].name)])
  /\ fileNo = 1
  /\ exitCode = Undefined
  /\ output = Null
  /\ ai = TRUE
  /\ routes = <<>>
  /\ pc = "parse"
  /\ InitAnalysis
  /\ InitApart

\* the values of --format
Formats == {"json", "yaml", "xml"}

\* the directories of whole runs
CliTrees ==
  { Directory(<<>>, TRUE, <<IndexTs, Directory(<<"api">>, TRUE, <<UsersJs>>)>>),
    Directory(<<>>, TRUE, <<SourceFile(<<"users", ".", "md">>, <<AppGetUsers>>)>>),
    Directory(<<>>, TRUE, <<SourceFile(<<"users", ".", "js">>, <<AppGetUsers, SyntaxError>>)>>) }

\* the scan command starts
InitCli ==
  /\ directoryExists \in BOOLEAN
  /\ format \in Formats
  /\ apiKey \in BOOLEAN
  /\ tree \in (IF directoryExists THEN CliTrees ELSE {Directory(<<>>, FALSE, <<>>)})
  /\ stack = <<>>
  /\ routeFiles = <<>>
  /\ fileNo = 1
  /\ exitCode = Undefined
  /\ output = Null
  /\ ai \in BOOLEAN
  /\ routes = <<>>
  /\ pc = "start"
  /\ InitAnalysis
  /\ InitApart

\* scan action, AI disabled or no route: analysisResults = routes.map(...)
TemplateResults ==
  /\ pc = "analyze"
  /\ ~(ai /\ Len(routes) > 0)
  /\ analysisResults' = [k \in DOMAIN routes |->
                           [route |-> routes[k], analysis |-> templateAnalysis(routes[k])]]
  /\ pc' = "generate"
  /\ UNCHANGED front
  /\ UNCHANGED <<ai, routes, i, j, attempt, outcomes, ret, openApiSpec>>
  /\ UNCHANGED apart

\* scan action, AI enabled: analyzeBatch(routes) starts
StartBatch ==
  /\ pc = "analyze"
  /\ ai /\ Len(routes) > 0
  /\ analysisResults' = <<>>
  /\ i' = 0
  /\ j' = 1
  /\ pc' = "batch"
  /\ UNCHANGED front
  /\ UNCHANGED <<ai, routes, attempt, outcomes, ret, openApiSpec>>
  /\ UNCHANGED apart

\* analyzeBatch: the next route of the batch, analyzeRoute(route) is called
CallAnalyzeRoute ==
  /\ pc = "batch"
  /\ i < Len(routes)
  /\ j <= Len(batch)
  /\ attempt' = 1
  /\ outcomes' = <<>>
  /\ ret' = NoCompletion
  /\ pc' = "attempt"
  /\ UNCHANGED front
  /\ UNCHANGED <<ai, routes, i, j, analysisResults, openApiSpec>>
  /\ UNCHANGED apart

\* analyzeRoute: one pass of the retry loop with the response the service gives
Attempt(response) ==
  /\ pc = "attempt"
  /\ attempt <= maxRetries
  /\ LET completion == tryAnalyze(batch[j], response)
     IN IF completion.kind = "return"
        THEN /\ ret' = completion
             /\ outcomes' = Append(outcomes, "accepted")
             /\ pc' = "return"
             /\ UNCHANGED attempt
        ELSE /\ outcomes' = Append(outcomes, response.kind)
             /\ attempt' = attempt + 1
             /\ UNCHANGED <<ret, pc>>
  /\ UNCHANGED front
  /\ UNCHANGED <<ai, routes, i, j, analysisResults, openApiSpec>>
  /\ UNCHANGED apart

\* analyzeRoute: the loop ended without a return
Exhausted ==
  /\ pc = "attempt"
  /\ attempt > maxRetries
  /\ ret' = afterRetries(batch[j])
  /\ pc' = "return"
  /\ UNCHANGED front
  /\ UNCHANGED <<ai, routes, i, j, attempt, outcomes, analysisResults, openApiSpec>>
  /\ UNCHANGED apart

\* analyzeBatch: the entry of the route is pushed; a throw of analyzeRoute is
\* caught and the fallback pushed
Collect ==
  /\ pc = "return"
  /\ analysisResults' =
       pushResult(analysisResults, batch[j],
                  IF ret.kind = "throw"
                  THEN generateFallbackAnalysis(batch[j])
                  ELSE ret.value)
  /\ j' = j + 1
  /\ outcomes' = <<>>
  /\ pc' = "batch"
  /\ UNCHANGED front
  /\ UNCHANGED <<ai, routes, i, attempt, ret, openApiSpec>>
  /\ UNCHANGED apart

\* analyzeBatch: the batch is done, i += batchSize
EndOfBatch ==
  /\ pc = "batch"
  /\ i < Len(routes)
  /\ j > Len(batch)
  /\ i' = i + batchSize
  /\ j' = 1
  /\ UNCHANGED front
  /\ UNCHANGED <<ai, routes, pc, attempt, outcomes, ret, analysisResults, openApiSpec>>
  /\ UNCHANGED apart

\* analyzeBatch returns results
ReturnBatch ==
  /\ pc = "batch"
  /\ i >= Len(routes)
  /\ pc' = "generate"
  /\ UNCHANGED front
  /\ UNCHANGED <<ai, routes, i, j, attempt, outcomes, ret, analysisResults, openApiSpec>>
  /\ UNCHANGED apart

\* scan action: generator.generateSpec(analysisResults); a throw ends the
\* action in its catch block, which exits with code 1
GenerateSpec ==
  /\ pc = "generate"
  /\ LET completion == generateSpec(analysisResults)
     IN IF completion.kind = "return"
        THEN openApiSpec' = completion.value /\ pc' = "done" /\ UNCHANGED exitCode
        ELSE openApiSpec' = openApiSpec /\ pc' = "failed" /\ exitCode' = Num(1)
  /\ UNCHANGED <<config, stack, routeFiles, fileNo, output>>
  /\ UNCHANGED <<ai, routes, i, j, attempt, outcomes, ret, analysisResults>>
  /\ UNCHANGED apart

\* scan action: the document is written to the output directory as
\* openapi.<format>, in YAML for the format yaml and in JSON for any other,
\* and the action ends
WriteSpecFile ==
  /\ pc = "done"
  /\ output' = [file |-> <<"openapi.", format>>,
                syntax |-> IF format = "yaml" THEN "yaml" ELSE "json",
                spec |-> openApiSpec]
  /\ exitCode' = Num(0)
  /\ pc' = "end"
  /\ UNCHANGED <<config, stack, routeFiles, fileNo, analyzer>>
  /\ UNCHANGED <<ai, routes>>
  /\ UNCHANGED apart

\* scan action: the directory and the API key are checked
ValidateOptions ==
  /\ pc = "start"
  /\ IF ~directoryExists
     THEN pc' = "exit" /\ exitCode' = Num(1)
     ELSE IF ai /\ ~apiKey
          THEN pc' = "exit" /\ exitCode' = Num(1)
          ELSE pc' = "scan" /\ UNCHANGED exitCode
  /\ UNCHANGED <<config, stack, routeFiles, fileNo, output, analyzer>>
  /\ UNCHANGED <<ai, routes>>
  /\ UNCHANGED apart

\* findRouteFiles(scanDir): searchDirectory(scanDir) reads the directory; a
\* directory that cannot be read is left at once
FindRouteFiles ==
  /\ pc = "scan"
  /\ routeFiles' = <<>>
  /\ stack' = IF tree.readable THEN <<[dir |-> scanDir, entries |-> tree.entries]>> ELSE <<>>
  /\ pc' = "walk"
  /\ UNCHANGED <<config, fileNo, exitCode, output, analyzer>>
  /\ UNCHANGED <<ai, routes>>
  /\ UNCHANGED apart

\* searchDirectory: the next entry of the directory being read
VisitEntry ==
  /\ pc = "walk"
  /\ stack # <<>>
  /\ stack[Len(stack)].entries # <<>>
  /\ LET frame == stack[Len(stack)]
         entry == Head(frame.entries)
         fullPath == join(frame.dir, entry.name)
         rest == [stack EXCEPT ![Len(stack)].entries = Tail(frame.entries)]
     IN CASE entry.kind = "dir" ->
               /\ stack' = IF ~isExcludedDirectory(entry.name) /\ entry.readable
                           THEN Append(rest, [dir |-> fullPath, entries |-> entry.entries])
                           ELSE rest
               /\ UNCHANGED routeFiles
          [] entry.kind = "file" ->
               /\ stack' = rest
               /\ routeFiles' = IF shouldProcessFile(entry) /\ containsRoutes(entry)
                                THEN Append(routeFiles, fullPath)
                                ELSE routeFiles
          [] OTHER ->
               /\ stack' = rest
               /\ UNCHANGED routeFiles
  /\ UNCHANGED <<config, fileNo, exitCode, output, analyzer>>
  /\ UNCHANGED <<ai, routes, pc>>
  /\ UNCHANGED apart

\* searchDirectory returns: every entry of the directory was visited
LeaveDirectory ==
  /\ pc = "walk"
  /\ stack # <<>>
  /\ stack[Len(stack)].entries = <<>>
  /\ stack' = SubSeq(stack, 1, Len(stack) - 1)
  /\ UNCHANGED <<config, routeFiles, fileNo, exitCode, output, analyzer>>
  /\ UNCHANGED <<ai, routes, pc>>
  /\ UNCHANGED apart

\* findRouteFiles returns the sorted list; the scan action exits with code 0
\* when it is empty
ReturnRouteFiles ==
  /\ pc = "walk"
  /\ stack = <<>>
  /\ routeFiles' = sort(routeFiles)
  /\ IF Len(routeFiles) = 0
     THEN pc' = "exit" /\ exitCode' = Num(0)
     ELSE pc' = "parse" /\ UNCHANGED exitCode
  /\ UNCHANGED <<config, stack, fileNo, output, analyzer>>
  /\ UNCHANGED <<ai, routes>>
  /\ UNCHANGED apart

\* scan action: one pass of the loop over routeFiles; an error parseFile
\* lets through ends the action in its catch block
ParseFile ==
  /\ pc = "parse"
  /\ fileNo <= Len(routeFiles)
  /\ LET fileRoutes == parseFile(FileAt(tree, routeFiles[fileNo]))
     IN IF fileRoutes.kind = "return"
        THEN /\ routes' = routes \o fileRoutes.value
             /\ fileNo' = fileNo + 1
             /\ UNCHANGED <<pc, exitCode>>
        ELSE /\ pc' = "failed"
             /\ exitCode' = Num(1)
             /\ UNCHANGED <<routes, fileNo>>
  /\ UNCHANGED <<config, stack, routeFiles, output, analyzer>>
  /\ UNCHANGED ai
  /\ UNCHANGED apart

\* scan action: every file was parsed
EndOfFiles ==
  /\ pc = "parse"
  /\ fileNo > Len(routeFiles)
  /\ pc' = "analyze"
  /\ UNCHANGED <<front, analyzer>>
  /\ UNCHANGED <<ai, routes>>
  /\ UNCHANGED apart

Next ==
  \/ TemplateResults
  \/ StartBatch
  \/ CallAnalyzeRoute
  \/ \E response \in Responses : Attempt(response)
  \/ Exhausted
  \/ Collect
  \/ EndOfBatch
  \/ ReturnBatch
  \/ GenerateSpec
  \/ WriteSpecFile

NextBatch ==
  \/ TemplateResults
  \/ StartBatch
  \/ CallAnalyzeRoute
  \/ \E response \in BatchResponses : Attempt(response)
  \/ Exhausted
  \/ Collect
  \/ EndOfBatch
  \/ ReturnBatch
  \/ GenerateSpec
  \/ WriteSpecFile

\* responses of whole runs
CliResponses == { Reject, Parsed(Obj(EmptyFields)) }

NextWalk ==
  \/ FindRouteFiles
  \/ VisitEntry
  \/ LeaveDirectory
  \/ ReturnRouteFiles

NextParse ==
  \/ ParseFile
  \/ EndOfFiles

NextCli ==
  \/ ValidateOptions
  \/ FindRouteFiles
  \/ VisitEntry
  \/ LeaveDirectory
  \/ ReturnRouteFiles
  \/ ParseFile
  \/ EndOfFiles
  \/ TemplateResults
  \/ StartBatch
  \/ CallAnalyzeRoute
  \/ \E response \in CliResponses : Attempt(response)
  \/ Exhausted
  \/ Collect
  \/ EndOfBatch
  \/ ReturnBatch
  \/ GenerateSpec
  \/ WriteSpecFile

Spec == Init /\ [][Next]_vars

SpecWalk == InitWalk /\ [][NextWalk]_vars

SpecParse == InitParse /\ [][NextParse]_vars

SpecCli == InitCli /\ [][NextCli]_vars

SpecBatch == InitBatch /\ [][NextBatch]_vars

(* ------------------- one call expression at a time --------------------- *)

\* the scan action and all it calls
scan == <<front, ai, routes, pc, analyzer>>

\* no scan command is running
InitNoScan ==
  /\ directoryExists = FALSE
  /\ format = "json"
  /\ apiKey = FALSE
  /\ tree = Directory(<<>>, FALSE, <<>>)
  /\ stack = <<>>
  /\ routeFiles = <<>>
  /\ fileNo = 1
  /\ exitCode = Undefined
  /\ output = Null
  /\ ai = FALSE
  /\ routes = <<>>
  /\ pc = "idle"
  /\ InitAnalysis

\* the grave accent that delimits a template literal, as a fragment of text
backtick == "<grave accent>"

\* the source of a template literal, every expression being the identifier id
RECURSIVE templateSource(_, _)
templateSource(quasis, k) ==
  IF k > Len(quasis)
  THEN <<backtick>>
  ELSE (IF k = 1 THEN <<backtick>> ELSE <<"${", "id", "}">>)
         \o quasis[k] \o templateSource(quasis, k + 1)

\* template literals of up to MaxQuasis literal segments, each of them empty,
\* a slash or /u
Templates ==
  { WithSource(TemplateLiteral(quasis), templateSource(quasis, 1)) :
      quasis \in UNION { [1..n -> { <<>>, <<"/">>, <<"/", "u">> }] : n \in 1..MaxQuasis } }

\* first arguments: '/u', '/u/:i', '', the templates and the identifier path
FirstArguments ==
  Templates
    \cup { WithSource(StringLiteral(<<"/", "u">>), <<"'", "/", "u", "'">>),
           WithSource(StringLiteral(<<"/", "u", "/", ":", "i">>),
                      <<"'", "/", "u", "/", ":", "i", "'">>),
           WithSource(StringLiteral(<<>>), <<"'", "'">>),
           Identifier("path") }

\* later arguments: getUsers, auth, an async arrow function over two lines, a
\* function expression with a destructured and a rest parameter, validate(),
\* upload.single('file') and the member expression auth.required
LaterArguments ==
  { Identifier("getUsers"),
    Identifier("auth"),
    FunctionNode("ArrowFunctionExpression", <<Identifier("req"), Identifier("res")>>, TRUE,
                 <<"async (req, res) => {", "\n", "  ", "res.json([])", " ", "\n", "}">>),
    FunctionNode("FunctionExpression",
                 <<[type |-> "ObjectPattern"], [type |-> "RestElement"]>>, FALSE,
                 <<"function ({ id }, ...rest) { }">>),
    CallExpression(Identifier("validate"), <<"validate()">>),
    CallExpression([type |-> "MemberExpression", source |-> <<"upload.single">>],
                   <<"upload.single('file')">>),
    [type |-> "MemberExpression", source |-> <<"auth.required">>] }

\* app.get, app.post and app.use called with up to MaxArgs arguments
Calls ==
  { RouteCall("app", property, arguments) :
      property \in {"get", "post", "use"},
      arguments \in
        {<<>>} \cup
        { <<first>> \o later :
            first \in FirstArguments,
            later \in UNION { [1..n -> LaterArguments] : n \in 0..(MaxArgs - 1) } } }

\* the traversal is about to hand a call expression to extractRoute
InitExtractRoute ==
  /\ InitNoScan
  /\ call \in { [node |-> node, route |-> Undefined] : node \in Calls }
  /\ extraction = Null
  /\ detection = Null
  /\ server = Null

\* CallExpression: (path) => this.extractRoute(path, content)
ExtractRoute ==
  /\ call.route = Undefined
  /\ call' = [call EXCEPT !.route = extractRouteOfArguments(call.node)]
  /\ UNCHANGED <<scan, extraction, detection, server>>

NextExtractRoute == ExtractRoute

SpecExtractRoute == InitExtractRoute /\ [][NextExtractRoute]_vars

(* ---------------------- one response text at a time -------------------- *)

\* "key": "value", the value given by its fragments
Member(key, value) == <<"\"", key, "\"", ":", " ", "\"">> \o value \o <<"\"">>

\* members whose keys and values hold or do not hold words of the cleaning
\* patterns
Members ==
  { Member(key, value) :
      key \in {"summary", "analysis"},
      value \in { <<"Test">>, <<"Here is", " the list">>, <<"Based on", " the id">>,
                  <<"User ", "analysis">> } }

\* the text of the JSON object with the members, on one line or on several
RECURSIVE ObjectText(_, _)
ObjectText(members, separator) ==
  IF Len(members) = 1
  THEN members[1] \o (IF separator = "\n" THEN <<"\n", "}">> ELSE <<"}">>)
  ELSE members[1] \o <<",", separator>> \o ObjectText(Tail(members), separator)

Objects ==
  { <<"{">> \o (IF separator = "\n" THEN <<"\n">> ELSE <<>>) \o ObjectText(members, separator) :
      members \in UNION { [1..n -> Members] : n \in 1..MaxMembers },
      separator \in {" ", "\n"} }

\* a JSON object alone, in code fences, after and before prose
ResponseTexts ==
  { before \o object \o after :
      before \in { <<>>,
                   <<"Here is", " the ", "analysis", ":", " ">>,
                   <<fence, "json", "\n">>,
                   <<"Sure.", "\n", fence, "\n">> },
      object \in Objects,
      after \in { <<>>, <<" and some extra text">>, <<"\n", fence>>,
                  <<"\n", fence, "\n", "Done.">> } }

\* analyzeRoute has the content of the service response
InitExtractJSON ==
  /\ InitNoScan
  /\ call = Null
  /\ extraction \in { [content |-> content, jsonContent |-> Undefined] :
                        content \in ResponseTexts }
  /\ detection = Null
  /\ server = Null

\* const jsonContent = this.extractJSON(content)
ExtractJSON ==
  /\ extraction.jsonContent = Undefined
  /\ extraction' = [extraction EXCEPT !.jsonContent = Str(extractJSON(extraction.content))]
  /\ UNCHANGED <<scan, call, detection, server>>

NextExtractJSON == ExtractJSON

SpecExtractJSON == InitExtractJSON /\ [][NextExtractJSON]_vars

(* ------------------------ one content at a time ------------------------ *)

\* statements of the contents the detector is given
DetectorStatements ==
  { FunctionCall("require", StringLiteral(<<"express">>)),
    ImportFrom("Fastify", <<"fastify">>),
    ImportFrom("Router", <<"@koa/router">>),
    MemberCall("app", "get", StringLiteral(<<"/", "api", "/", "u">>)),
    MemberCall("router", "post", StringLiteral(<<"/", "u">>)),
    MemberCall("fastify", "register", StringLiteral(<<"/", "login">>)),
    MemberCall("res", "json", StringLiteral(<<"u">>)),
    MemberCall("cache", "get", StringLiteral(<<"k", "e", "y">>)) }

\* the frameworks to check for: the default list, parts and reorderings of
\* it, and a list naming a framework without patterns
FrameworkLists ==
  { <<"express", "fastify", "koa">>, <<"koa", "fastify", "express">>, <<"fastify", "express">>,
    <<"koa">>, <<"hapi", "express", "koa">>, <<>> }

\* analyzeContent(content, frameworks) is called
InitAnalyzeContent ==
  /\ InitNoScan
  /\ call = Null
  /\ extraction = Null
  /\ detection \in
       { [content |-> content, frameworks |-> frameworks, k |-> 1, results |-> NoResults,
          returned |-> FALSE] :
           content \in UNION { [1..n -> DetectorStatements] : n \in 0..MaxCalls },
           frameworks \in FrameworkLists }
  /\ server = Null

\* for (const framework of frameworks): one pass; a framework without
\* patterns is passed over
ExamineFramework ==
  /\ ~detection.returned
  /\ detection.k <= Len(detection.frameworks)
  /\ LET framework == detection.frameworks[detection.k]
     IN detection' =
          [detection EXCEPT
             !.k = @ + 1,
             !.results = IF routePatternsOf(framework) = <<>>
                         THEN @
                         ELSE updateResults(@, framework,
                                            examineFramework(detection.content, framework))]
  /\ UNCHANGED <<scan, call, extraction, server>>

\* after the loop: the fallback, and return results
ReturnResults ==
  /\ ~detection.returned
  /\ detection.k > Len(detection.frameworks)
  /\ detection' = [detection EXCEPT !.results = genericFallback(@, detection.content),
                                    !.returned = TRUE]
  /\ UNCHANGED <<scan, call, extraction, server>>

NextAnalyzeContent ==
  \/ ExamineFramework
  \/ ReturnResults

SpecAnalyzeContent == InitAnalyzeContent /\ [][NextAnalyzeContent]_vars

(* ------------------------ an interrupted scan -------------------------- *)

\* analyzeRoute: groq.chat.completions.create is called and awaited
SendRequest ==
  /\ pc = "attempt"
  /\ attempt <= maxRetries
  /\ pc' = "request"
  /\ UNCHANGED front
  /\ UNCHANGED <<ai, routes, analyzer>>
  /\ UNCHANGED apart

\* analyzeRoute: the awaited request settles and the pass of the retry loop
\* goes on with the response the service gave
ReceiveResponse(response) ==
  /\ pc = "request"
  /\ LET completion == tryAnalyze(batch[j], response)
     IN IF completion.kind = "return"
        THEN /\ ret' = completion
             /\ outcomes' = Append(outcomes, "accepted")
             /\ pc' = "return"
             /\ UNCHANGED attempt
        ELSE /\ outcomes' = Append(outcomes, response.kind)
             /\ attempt' = attempt + 1
             /\ pc' = "attempt"
             /\ UNCHANGED ret
  /\ UNCHANGED front
  /\ UNCHANGED <<ai, routes, i, j, analysisResults, openApiSpec>>
  /\ UNCHANGED apart

\* scan action: fs.writeFile / fs.writeJSON opens openapi.<format>, which
\* truncates it; until the text is written the file holds no document
OpenSpecFile ==
  /\ pc = "done"
  /\ output' = [file |-> <<"openapi.", format>>,
                syntax |-> IF format = "yaml" THEN "yaml" ELSE "json",
                spec |-> Undefined]
  /\ pc' = "writing"
  /\ UNCHANGED <<config, stack, routeFiles, fileNo, exitCode, analyzer>>
  /\ UNCHANGED <<ai, routes>>
  /\ UNCHANGED apart

\* scan action: the text is written, the file closed and the action ends
CloseSpecFile ==
  /\ pc = "writing"
  /\ output' = [output EXCEPT !.spec = openApiSpec]
  /\ exitCode' = Num(0)
  /\ pc' = "end"
  /\ UNCHANGED <<config, stack, routeFiles, fileNo, analyzer>>
  /\ UNCHANGED <<ai, routes>>
  /\ UNCHANGED apart

\* SIGINT reaches the process while the scan action runs.  The scan command
\* installs no handler, so the process ends there and then: nothing awaited
\* is resumed, and a request in flight is dropped with its connection.
Interrupt ==
  /\ exitCode = Undefined
  /\ exitCode' = Num(130)
  /\ outcomes' = IF pc = "request" THEN Append(outcomes, "abandoned") ELSE outcomes
  /\ pc' = IF pc \in {"batch", "attempt", "request", "return"}
           THEN "interrupted in batch"
           ELSE "interrupted"
  /\ UNCHANGED <<config, stack, routeFiles, fileNo, output>>
  /\ UNCHANGED <<ai, routes, i, j, attempt, ret, analysisResults, openApiSpec>>
  /\ UNCHANGED apart

NextSignal ==
  \/ ValidateOptions
  \/ FindRouteFiles
  \/ VisitEntry
  \/ LeaveDirectory
  \/ ReturnRouteFiles
  \/ ParseFile
  \/ EndOfFiles
  \/ TemplateResults
  \/ StartBatch
  \/ CallAnalyzeRoute
  \/ SendRequest
  \/ \E response \in CliResponses : ReceiveResponse(response)
  \/ Exhausted
  \/ Collect
  \/ EndOfBatch
  \/ ReturnBatch
  \/ GenerateSpec
  \/ OpenSpecFile
  \/ CloseSpecFile
  \/ Interrupt

SpecSignal == InitCli /\ [][NextSignal]_vars

(* ------------------------ documentation server ------------------------- *)

\* The file at specPath: whether it exists and the value its content parses
\* to (as JSON or as YAML, by its extension), undefined for content that
\* does not parse.
SpecFile(exists, parsed) == [exists |-> exists, parsed |-> parsed]

\* a completion never thrown: null for a missing file and for any error
loadSpec(file) ==
  IF ~file.exists
  THEN Null
  ELSE IF file.parsed = Undefined
       THEN Null
       ELSE file.parsed

\* every reload assigned, the failed ones as well
onReloadAlways(spec, newSpec) == newSpec

\* watcher.on('change'): if (newSpec) { onChange(newSpec) }, spec = newSpec
onReload(spec, newSpec) == IF Truthy(newSpec) THEN newSpec ELSE spec

\* documents of the spec file: without paths, and with one path
SpecDocuments ==
  { Obj([openapi |-> Str(<<"3.0.0">>), paths |-> Obj(EmptyFields)]),
    Obj([openapi |-> Str(<<"3.0.0">>),
         paths |-> Obj([p \in {<<"/", "u">>} |-> Obj([get |-> Obj(EmptyFields)])])]) }

\* the states of the file: missing, not parsable, holding the text null, or
\* holding a document
SpecFiles ==
  { SpecFile(FALSE, Undefined), SpecFile(TRUE, Undefined), SpecFile(TRUE, Null) }
    \cup { SpecFile(TRUE, document) : document \in SpecDocuments }

\* new Server().  changes counts the change events not yet handled, reads
\* holds what the loadSpec calls of the watcher that have not returned yet
\* have read.  first and loaded are history: what the loadSpec of start and
\* the last loadSpec that returned a specification gave; response is the
\* body of the last GET /spec.
InitServer ==
  /\ InitNoScan
  /\ call = Null
  /\ extraction = Null
  /\ detection = Null
  /\ server \in { [file |-> file, state |-> "constructed", spec |-> Undefined,
                   watch |-> FALSE, listening |-> FALSE, changes |-> 0,
                   reads |-> <<>>, first |-> Undefined, loaded |-> Undefined, response |-> Undefined] :
                    file \in SpecFiles }

\* start({ specPath, watch }): the spec is loaded; without one start throws
\* before any route or listener is set up
Start(watch) ==
  /\ server.state = "constructed"
  /\ LET spec == loadSpec(server.file)
     IN server' = IF ~Truthy(spec)
                  THEN [server EXCEPT !.state = "failed"]
                  ELSE [server EXCEPT !.state = "started", !.spec = spec, !.watch = watch,
                                      !.listening = TRUE, !.first = spec, !.loaded = spec]
  /\ UNCHANGED <<scan, call, extraction, detection>>

\* the file is written, removed or created by another process; chokidar
\* emits change for a file that existed and still exists
WriteFile(file) ==
  /\ file # server.file
  /\ server.changes + Len(server.reads) < MaxChanges
  /\ server' = [server EXCEPT
                  !.file = file,
                  !.changes = IF server.state = "started" /\ server.watch
                                 /\ server.file.exists /\ file.exists
                              THEN @ + 1
                              ELSE @]
  /\ UNCHANGED <<scan, call, extraction, detection>>

\* watcher.on('change', ...): loadSpec reads the file
Reload ==
  /\ server.changes > 0
  /\ server' = [server EXCEPT !.changes = @ - 1,
                              !.reads = Append(@, loadSpec(server.file))]
  /\ UNCHANGED <<scan, call, extraction, detection>>

\* one of the loadSpec calls of the watcher returns, in any order
Reloaded(k) ==
  /\ k \in DOMAIN server.reads
  /\ LET newSpec == server.reads[k]
     IN server' = [server EXCEPT
                     !.reads = SubSeq(@, 1, k - 1) \o SubSeq(@, k + 1, Len(@)),
                     !.spec = onReload(@, newSpec),
                     !.loaded = IF Truthy(newSpec) THEN newSpec ELSE @]
  /\ UNCHANGED <<scan, call, extraction, detection>>

\* GET /spec: res.json(spec)
GetSpec ==
  /\ server.listening
  /\ server' = [server EXCEPT !.response = server.spec]
  /\ UNCHANGED <<scan, call, extraction, detection>>

\* stop(): the listener is closed; the watcher is not
Stop ==
  /\ server.listening
  /\ server' = [server EXCEPT !.listening = FALSE]
  /\ UNCHANGED <<scan, call, extraction, detection>>

NextServer ==
  \/ \E watch \in BOOLEAN : Start(watch)
  \/ \E file \in SpecFiles : WriteFile(file)
  \/ Reload
  \/ \E k \in 1..MaxChanges : Reloaded(k)
  \/ GetSpec
  \/ Stop

SpecServer == InitServer /\ [][NextServer]_vars

(* ------------------------------ claims --------------------------------- *)

\* the route analyzeRoute was called with
current == batch[j]

AllFailed == \A k \in DOMAIN outcomes : outcomes[k] # "accepted"

\* analyzeRoute has returned after three failed attempts
ThreeFailures == pc = "return" /\ Len(outcomes) = 3 /\ AllFailed

\* C1: when the service call fails on every one of the 3 attempts for a
\* route, analyzeRoute returns the Analysis generateFallbackAnalysis(route),
\* field by field.
C1_FallbackAfterThreeFailures ==
  ThreeFailures => ret = Return(generateFallbackAnalysis(current))

\* three attempts failed in three different ways, for a route with a parameter
C1_Witness ==
  /\ ThreeFailures
  /\ outcomes = <<"reject", "empty", "json">>
  /\ current.parameters.items # <<>>
  /\ ret.kind = "return"

\* C2: analyzeRoute issues at most 3 service requests and none after the
\* first accepted payload; a failure of any kind is followed by a retry
\* while attempts remain, and the third failure by the template Analysis.
C2_RetryThenFallback ==
  /\ Len(outcomes) <= 3
  /\ \A k \in 1..(Len(outcomes) - 1) : outcomes[k] # "accepted"
  /\ pc = "attempt" => AllFailed /\ attempt = Len(outcomes) + 1
  /\ pc = "return" =>
       \/ outcomes # <<>> /\ outcomes[Len(outcomes)] = "accepted" /\ ret.kind = "return"
       \/ ThreeFailures /\ ret = Return(generateFallbackAnalysis(current))

\* two failures of different kinds, then a payload that is accepted
C2_Witness ==
  /\ pc = "return"
  /\ outcomes = <<"unparseable", "reject", "accepted">>

AnalysisFields ==
  {"summary", "description", "tags", "parameters", "responseSchema", "statusCodes", "examples"}

Returnable(route) ==
  {generateFallbackAnalysis(route)} \cup
  { tryAnalyze(route, response).value :
      response \in { r \in Responses : tryAnalyze(route, r).kind = "return" } }

\* C4: analyzeBatch returns exactly one {route, analysis} entry per input
\* route, in input order, whichever routes suffer service failures; an entry
\* once collected is never removed, moved or changed by what happens to
\* another route, and is an Analysis of its own route.
C4_OneEntryPerRouteInOrder ==
  [][/\ \A k \in DOMAIN analysisResults :
          k \in DOMAIN analysisResults' /\ analysisResults'[k] = analysisResults[k]
     /\ (ai /\ pc' = "generate") =>
          /\ Len(analysisResults') = Len(routes)
          /\ \A k \in DOMAIN routes :
               /\ analysisResults'[k].route = routes[k]
               /\ analysisResults'[k].analysis \in Returnable(routes[k])]_vars

\* a run over two batches in which one route fell back to the template and
\* another route's payload was accepted
C4_Witness ==
  /\ ai
  /\ pc = "generate"
  /\ Len(routes) > batchSize
  /\ \E k, h \in DOMAIN analysisResults :
       /\ analysisResults[k].analysis = generateFallbackAnalysis(routes[k])
       /\ analysisResults[h].analysis # generateFallbackAnalysis(routes[h])

\* C5: with AI disabled, the Analysis paired with each Route is the
\* template-strategy Analysis generateFallbackAnalysis(route) that the
\* generative strategy falls back to.
C5_NoAiIsFallbackAnalysis ==
  (~ai /\ pc = "generate") =>
    /\ Len(analysisResults) = Len(routes)
    /\ \A k \in DOMAIN routes :
         analysisResults[k].analysis = generateFallbackAnalysis(routes[k])

\* analyzeRoute has returned the template-strategy Analysis of the route
TemplateApplied == pc = "return" /\ attempt > 3

\* C6: the template-strategy Analysis of every Route has a responseSchema
\* that is not null, has requestSchema = null for GET and DELETE, and has a
\* request schema only for POST, PUT and PATCH.
C6_TemplateSchemas ==
  TemplateApplied =>
    /\ Get(ret.value, "responseSchema").t = "object"
    /\ current.method \in {"GET", "DELETE"} => Get(ret.value, "requestSchema") = Null
    /\ Get(ret.value, "requestSchema") # Null => current.method \in {"POST", "PUT", "PATCH"}
    /\ current.method \in {"POST", "PUT", "PATCH"} => Get(ret.value, "requestSchema").t = "object"

\* the template Analysis of a DELETE route
C6_Witness ==
  /\ TemplateApplied
  /\ current.method = "DELETE"
  /\ Get(ret.value, "requestSchema") = Null

\* positions a..b of path are one whole segment between slashes
IsSegment(path, a, b) ==
  /\ a <= b
  /\ a = 1 \/ path[a - 1] = "/"
  /\ b = Len(path) \/ path[b + 1] = "/"
  /\ \A k \in a..b : path[k] # "/"

\* the segments of path that are no parameter, as pairs of positions
PlainSegments(path) ==
  { ab \in (DOMAIN path) \X (DOMAIN path) : IsSegment(path, ab[1], ab[2]) /\ path[ab[1]] # ":" }

\* the last segment of path that is no parameter
LastPlainSegment(path) ==
  LET ab == CHOOSE x \in PlainSegments(path) : \A y \in PlainSegments(path) : y[1] <= x[1]
  IN SubSeq(path, ab[1], ab[2])

\* the path carries an id parameter: the test the template applies is that
\* the path holds a colon
CarriesId(path) == \E k \in DOMAIN path : path[k] = ":"

\* C7: the template summary is decided by the verb, by whether the path
\* carries an id parameter and by the resource, the last path segment that
\* is no parameter: "List <resource>s" / "Get <resource>" for GET without /
\* with id, "Create" for POST, "Update" for PUT and PATCH, "Delete" for
\* DELETE; the response schema is an array exactly for GET without id.
C7_TemplateSummary ==
  TemplateApplied =>
    /\ PlainSegments(current.path) # {} =>
         LET resource == LastPlainSegment(current.path)
             summary == Get(ret.value, "summary")
         IN /\ (current.method = "GET" /\ ~CarriesId(current.path)) =>
                  summary = Str(<<"List ">> \o resource \o <<"s">>)
            /\ (current.method = "GET" /\ CarriesId(current.path)) =>
                  summary = Str(<<"Get ">> \o resource)
            /\ current.method = "POST" => summary = Str(<<"Create ">> \o resource)
            /\ current.method \in {"PUT", "PATCH"} => summary = Str(<<"Update ">> \o resource)
            /\ current.method = "DELETE" => summary = Str(<<"Delete ">> \o resource)
    /\ Get(Get(ret.value, "responseSchema"), "type") =
         IF current.method = "GET" /\ ~CarriesId(current.path)
         THEN Str(<<"array">>)
         ELSE Str(<<"object">>)

\* the template Analysis of GET /u/i, whose resource is the second segment
C7_Witness ==
  /\ TemplateApplied
  /\ current.method = "GET"
  /\ current.path = <<"/", "u", "/", "i">>
  /\ Get(ret.value, "summary") = Str(<<"List ", "i", "s">>)

\* the status codes conventional for a verb and a path shape
ConventionalCodes(route) ==
  {400, 500}
    \cup (IF route.method # "DELETE" THEN {200} ELSE {})
    \cup (IF route.method = "POST" THEN {201} ELSE {})
    \cup (IF route.method = "DELETE" THEN {204} ELSE {})
    \cup (IF CarriesId(route.path) THEN {404} ELSE {})

\* C8: the entries of the template status-code map are exactly the codes
\* conventional for the verb and the path shape: 404 iff the path carries an
\* id parameter, 201 only for POST, 204 only for DELETE, 200 unless DELETE,
\* 400 and 500 always, and no other code.
C8_TemplateStatusCodes ==
  TemplateApplied =>
    DOMAIN Get(ret.value, "statusCodes").fields = ConventionalCodes(current)

\* the end of the run of word characters that starts at position a of s
WordEnd(s, a) ==
  CHOOSE e \in a..Len(s) :
    /\ \A k \in a..e : s[k] \in WordChars
    /\ e = Len(s) \/ s[e + 1] \notin WordChars

\* path with each :name token rewritten to {name}
RECURSIVE NormalizePath(_)
NormalizePath(s) ==
  IF s = <<>>
  THEN <<>>
  ELSE IF s[1] = ":" /\ Len(s) >= 2 /\ s[2] \in WordChars
       THEN <<"{">> \o SubSeq(s, 2, WordEnd(s, 2)) \o <<"}">>
              \o NormalizePath(SubSeq(s, WordEnd(s, 2) + 1, Len(s)))
       ELSE <<s[1]>> \o NormalizePath(Tail(s))

HasNameToken(s) == \E k \in 1..(Len(s) - 1) : s[k] = ":" /\ s[k + 1] \in WordChars

\* C9: every key of paths is a Route path with each :name token rewritten
\* to {name}; no key of paths holds a :name token.
C9_NormalizedPathKeys ==
  pc = "done" =>
    /\ DOMAIN Get(openApiSpec, "paths").fields =
         { NormalizePath(analysisResults[k].route.path) : k \in DOMAIN analysisResults }
    /\ \A key \in DOMAIN Get(openApiSpec, "paths").fields : ~HasNameToken(key)

\* the (path, verb) keys of the assembled document
OperationKeys ==
  LET paths == Get(openApiSpec, "paths").fields
  IN UNION { { <<p, verb>> : verb \in DOMAIN paths[p].fields } : p \in DOMAIN paths }

\* C10: Routes with the same path and different verbs are sibling keys of
\* the same paths[path] object, and the (path, lower-cased verb) keys of the
\* document are exactly the (path, verb) pairs of the input Routes.
C10_GroupingKeepsOperations ==
  pc = "done" =>
    OperationKeys =
      { <<analysisResults[k].route.path, toLowerCase(analysisResults[k].route.method)>> :
          k \in DOMAIN analysisResults }

\* a document of two verbs on one path and a third route on another path
C10_Witness ==
  /\ pc = "done"
  /\ \E k, h, g \in DOMAIN analysisResults :
       /\ analysisResults[k].route.path = analysisResults[h].route.path
       /\ analysisResults[k].route.method # analysisResults[h].route.method
       /\ analysisResults[g].route.path # analysisResults[k].route.path
  /\ Cardinality(OperationKeys) = 3

\* the operation the document holds for the route of a result
OperationOf(result) ==
  Get(Get(Get(openApiSpec, "paths"), result.route.path), toLowerCase(result.route.method))

SameOperationKey(a, b) == a.route.path = b.route.path /\ a.route.method = b.route.method

\* C11: when the input holds several (Route, Analysis) pairs with the same
\* path and verb, generateSpec does not fail because of them (it fails only
\* when building the operation of some pair fails on its own), and the
\* operation of the (path, verb) is built from the last such pair.
C11_LastDuplicateWins ==
  /\ pc = "failed" =>
       \E k \in DOMAIN analysisResults :
         generateOperationFromAnalysis(analysisResults[k].route,
                                       analysisResults[k].analysis).kind = "throw"
  /\ pc = "done" =>
       \A k \in DOMAIN analysisResults :
         (\A h \in (k + 1)..Len(analysisResults) :
            ~SameOperationKey(analysisResults[k], analysisResults[h])) =>
           OperationOf(analysisResults[k]) =
             generateOperationFromAnalysis(analysisResults[k].route,
                                           analysisResults[k].analysis).value

\* a document of two pairs with the same path and verb whose operations
\* differ: the document holds the later one
C11_Witness ==
  /\ pc = "done"
  /\ \E k, h \in DOMAIN analysisResults :
       /\ k < h
       /\ h = Len(analysisResults)
       /\ SameOperationKey(analysisResults[k], analysisResults[h])
       /\ OperationOf(analysisResults[h]) #
            generateOperationFromAnalysis(analysisResults[k].route,
                                          analysisResults[k].analysis).value

ComponentSchemas == Get(Get(openApiSpec, "components"), "schemas").fields

\* C12: no two entries of components.schemas serialize identically: request
\* and response schemas that are the same across routes are one entry.
C12_SchemasAreDistinct ==
  pc = "done" =>
    \A n1, n2 \in DOMAIN ComponentSchemas :
      n1 # n2 => stringify(ComponentSchemas[n1]) # stringify(ComponentSchemas[n2])

\* POST /u and PUT /i/:u with the same request schema: one definition of it
C12_Witness ==
  /\ pc = "done"
  /\ \E k, h \in DOMAIN analysisResults :
       /\ analysisResults[k].route = Route("POST", <<"u">>)
       /\ analysisResults[h].route = Route("PUT", <<"i", "/", ":", "u">>)
       /\ Get(analysisResults[k].analysis, "requestSchema") = FallbackRequestSchema
       /\ Get(analysisResults[h].analysis, "requestSchema") = FallbackRequestSchema
  /\ Cardinality({ n \in DOMAIN ComponentSchemas :
                     ComponentSchemas[n] = FallbackRequestSchema }) = 1

\* the names of the parameters of a list; a value that is no list names none
ParameterNames(parameters) ==
  IF parameters.t = "array"
  THEN { Get(parameters.items[k], "name") : k \in DOMAIN parameters.items }
  ELSE {}

\* the service payload was accepted for the route analyzeRoute was called with
Accepted == pc = "return" /\ outcomes # <<>> /\ outcomes[Len(outcomes)] = "accepted"

\* C13: the parameters of an operation are the parameters of the Analysis
\* unioned with the path parameters of the Route: every path parameter of
\* the Route is a parameter of the operation by name, also when the payload
\* of the service omits it, and a parameter added for that reason is
\* required, located in the path and of type string.
C13_ParametersUnion ==
  /\ Accepted =>
       \A response \in Responses :
         tryAnalyze(current, response) = ret =>
           LET own == ParameterNames(Get(response.json, "parameters"))
               operation == generateOperationFromAnalysis(current, ret.value)
           IN operation.kind = "return" =>
                LET parameters == Get(operation.value, "parameters").items
                IN /\ { Get(parameters[k], "name") : k \in DOMAIN parameters } =
                        own \cup ParameterNames(current.parameters)
                   /\ \A k \in DOMAIN parameters :
                        Get(parameters[k], "name") \notin own =>
                          /\ Get(parameters[k], "in") = Str(<<"path">>)
                          /\ Get(parameters[k], "required") = Bool(TRUE)
                          /\ Get(parameters[k], "schema") = Obj([type |-> Str(<<"string">>)])
  /\ pc = "done" =>
       \A k \in DOMAIN analysisResults :
         ParameterNames(analysisResults[k].route.parameters) \subseteq
           ParameterNames(Get(OperationOf(analysisResults[k]), "parameters"))

\* the payload names the parameter i, the route /:u:i has u as well: the
\* operation of the document holds both
C13_Witness ==
  /\ pc = "done"
  /\ ai
  /\ routes[1].path = <<"/", ":", "u", ":", "i">>
  /\ Get(analysisResults[1].analysis, "summary") = Str(<<"Get user by ID">>)
  /\ ParameterNames(Get(OperationOf(analysisResults[1]), "parameters")) =
       {Str(<<"u">>), Str(<<"i">>)}

HasRequestSchema(analysis) == Get(analysis, "requestSchema").t \notin {"null", "undefined"}

\* C14: an operation has a requestBody if and only if the verb of its Route
\* is POST, PUT or PATCH and its Analysis has a request schema; the
\* application/json schema of the requestBody is that request schema.
C14_RequestBody ==
  pc = "done" =>
    \A k \in DOMAIN analysisResults :
      (\A h \in (k + 1)..Len(analysisResults) :
         ~SameOperationKey(analysisResults[k], analysisResults[h])) =>
        LET route == analysisResults[k].route
            analysis == analysisResults[k].analysis
            operation == OperationOf(analysisResults[k])
        IN /\ "requestBody" \in DOMAIN operation.fields <=>
                (route.method \in {"POST", "PUT", "PATCH"} /\ HasRequestSchema(analysis))
           /\ "requestBody" \in DOMAIN operation.fields =>
                Get(Get(Get(Get(operation, "requestBody"), "content"), "application/json"),
                    "schema") = Get(analysis, "requestSchema")

\* a PATCH operation whose requestBody carries the request schema of the
\* payload
C14_Witness ==
  /\ pc = "done"
  /\ routes[1].method = "PATCH"
  /\ Get(analysisResults[1].analysis, "requestSchema") = SampleRequestSchema
  /\ Get(Get(Get(Get(OperationOf(analysisResults[1]), "requestBody"), "content"),
             "application/json"), "schema") = SampleRequestSchema

\* the call is app.<verb> or router.<verb> with a string or template literal
\* as its first argument
IsVerbCall(node) ==
  /\ node.callee = "member"
  /\ node.object \in {"app", "router"}
  /\ node.property \in {"get", "post", "put", "delete", "patch", "options", "head"}
  /\ node.argument.type \in {"StringLiteral", "TemplateLiteral"}

\* one Route per call of the verb-call grammar, in source order, from call k on
RECURSIVE GrammarRoutes(_, _)
GrammarRoutes(content, k) ==
  IF k > Len(content)
  THEN <<>>
  ELSE (IF IsVerbCall(content[k])
        THEN <<extractRoute(toUpperCase(content[k].property),
                            extractRoutePath(content[k].argument).v)>>
        ELSE <<>>)
       \o GrammarRoutes(content, k + 1)

CanBeParsed(file) ==
  file.readable /\ \A k \in DOMAIN file.content : file.content[k] # SyntaxError

\* the routes of the files from routeFiles[k] on, a file that can be read
\* and parsed giving the routes of the grammar (byGrammar) or of traverse
RECURSIVE RoutesOfFiles(_, _)
RoutesOfFiles(k, byGrammar) ==
  IF k > Len(routeFiles)
  THEN <<>>
  ELSE LET file == FileAt(tree, routeFiles[k])
       IN (IF ~CanBeParsed(file)
           THEN <<>>
           ELSE IF byGrammar
                THEN GrammarRoutes(file.content, 1)
                ELSE traverse(file.content, 1))
          \o RoutesOfFiles(k + 1, byGrammar)

\* C15: parseFile returns one Route, in source order, for each call
\* app.<verb>(...) or router.<verb>(...) with a recognized verb and a string
\* or template literal as first argument, and no Route for any other call,
\* such as cache.get('key').
C15_OneRoutePerVerbCall ==
  pc = "analyze" => routes = RoutesOfFiles(1, TRUE)

\* the names of the :name tokens of a path
NameTokens(path) ==
  { SubSeq(path, k + 1, WordEnd(path, k + 1)) :
      k \in { h \in 1..(Len(path) - 1) : path[h] = ":" /\ path[h + 1] \in WordChars } }

\* C16: the names of Route.parameters are the :name tokens of the path, no
\* two parameters of a Route have the same name, and each is a required
\* path parameter of type string.
C16_ParametersAreTheNameTokens ==
  \A k \in DOMAIN routes :
    LET parameters == routes[k].parameters.items
    IN /\ { Get(parameters[h], "name").v : h \in DOMAIN parameters } = NameTokens(routes[k].path)
       /\ \A g, h \in DOMAIN parameters :
            g # h => Get(parameters[g], "name") # Get(parameters[h], "name")
       /\ \A h \in DOMAIN parameters :
            /\ Get(parameters[h], "in") = Str(<<"path">>)
            /\ Get(parameters[h], "required") = Bool(TRUE)
            /\ Get(parameters[h], "type") = Str(<<"string">>)

\* C17: parseFile never throws: a file that cannot be read or parsed gives
\* an empty list, the loop of the scan action goes on to the remaining
\* files and the Routes of every other file are extracted.
C17_ParseFileNeverThrows ==
  /\ pc # "failed"
  /\ exitCode = Undefined
  /\ pc = "parse" => routes = RoutesOfFiles(1, FALSE) \/ fileNo <= Len(routeFiles)
  /\ pc = "analyze" =>
       /\ fileNo = Len(routeFiles) + 1
       /\ routes = RoutesOfFiles(1, FALSE)

\* the first file of the loop could not be parsed or read, the Routes of the
\* second were extracted
C17_Witness ==
  /\ pc = "analyze"
  /\ Len(routeFiles) = 2
  /\ ~CanBeParsed(FileAt(tree, routeFiles[1]))
  /\ CanBeParsed(FileAt(tree, routeFiles[2]))
  /\ Len(routes) = 2

\* findRouteFiles has returned
WalkReturned == pc \in {"parse", "exit"}

AllFiles == FilesBelow(tree.entries, scanDir, <<>>)

\* the name ends in an accepted extension
AcceptedExtension(name) ==
  Len(name) >= 2 /\ name[Len(name) - 1] = "." /\ name[Len(name)] \in {"js", "ts"}

\* the name, whatever its case, is or contains an excluded directory name
NamesExcludedDirectory(name) ==
  \E pattern \in excludeDirs :
    \E a, b \in DOMAIN name : SubSeq(lowerCase(name), a, b) = lowerCase(pattern)

\* C18: the list findRouteFiles returns is sorted, every element is a file
\* that passes the file rule (accepted extension, no excluded filename,
\* within the size ceiling) and lies below no directory, relative to the scan
\* root, whose name is or contains an excluded directory name whatever its
\* case; a directory that cannot be read is skipped and the walk goes on:
\* the route files of the other directories are returned.
C18_WalkOutput ==
  /\ exitCode # Num(1)
  /\ WalkReturned =>
       /\ \A k, h \in DOMAIN routeFiles : k < h => SortsBefore(routeFiles[k], routeFiles[h])
       /\ \A k \in DOMAIN routeFiles :
            \E f \in AllFiles :
              /\ f.path = routeFiles[k]
              /\ AcceptedExtension(f.file.name)
              /\ ~isExcludedFile(f.file.name)
              /\ f.file.stat /\ f.file.size <= sizeCeiling
              /\ \A d \in DOMAIN f.above : ~NamesExcludedDirectory(f.above[d].name)
       /\ \A f \in AllFiles :
            ( /\ tree.readable
              /\ \A d \in DOMAIN f.above :
                   f.above[d].readable /\ ~NamesExcludedDirectory(f.above[d].name)
              /\ shouldProcessFile(f.file)
              /\ containsRoutes(f.file) ) =>
              \E k \in DOMAIN routeFiles : routeFiles[k] = f.path

\* a directory whose files were found in the order users.js, index.ts and a
\* directory that cannot be read: the walk returns the two files sorted
C18_Witness ==
  /\ WalkReturned
  /\ \E k \in DOMAIN tree.entries :
       tree.entries[k].kind = "dir" /\ ~tree.entries[k].readable
  /\ \E k \in DOMAIN tree.entries : tree.entries[k].entries = <<UsersJs, IndexTs>>
  /\ routeFiles = << <<"/", "srv", "/", "lib", "/", "index", ".", "ts">>,
                     <<"/", "srv", "/", "lib", "/", "users", ".", "js">> >>

\* the test-framework indicators the content matches
TestIndicators(content) ==
  { content[k].property : k \in { h \in DOMAIN content : content[h].callee # "none" } }
    \cap {"describe", "it", "test", "expect", "beforeEach", "afterEach", "beforeAll", "afterAll"}

\* C19: a file whose content matches at least two distinct test-framework
\* indicators is never reported as a route file, also when the content
\* holds an app.<verb>( or router.<verb>( call: containsRoutes is false and
\* findRouteFiles omits it.
C19_TestFilesAreNoRouteFiles ==
  \A f \in AllFiles :
    Cardinality(TestIndicators(f.file.content)) >= 2 =>
      /\ ~containsRoutes(f.file)
      /\ \A k \in DOMAIN routeFiles : routeFiles[k] # f.path

\* a file with describe( and it( and an app.get( call is omitted, a file
\* with describe( twice and an app.get( call is returned
C19_Witness ==
  /\ WalkReturned
  /\ tree.entries = <<TestLikeTs, OneIndicatorTs>>
  /\ matchesRoutePattern(TestLikeTs.content)
  /\ routeFiles = << <<"/", "srv", "/", "api", ".", "ts">> >>

ConfigurationError == ~directoryExists \/ format \notin {"json", "yaml"}

\* C20: when the root directory is missing or the output format is not json
\* or yaml, the scan command exits non-zero before any stage runs: nothing
\* is scanned, parsed, analyzed or written.
C20_ConfigurationErrorsAreFatal ==
  (ConfigurationError /\ pc # "start") =>
    /\ pc = "exit"
    /\ exitCode = Num(1)
    /\ routeFiles = <<>>
    /\ routes = <<>>
    /\ analysisResults = <<>>
    /\ output = Null

\* the fields of an Analysis
AllAnalysisFields == AnalysisFields \cup {"requestSchema"}

\* C23: when the service returns a parseable object with missing fields,
\* each missing field of the Analysis analyzeRoute returns equals the value
\* the template strategy gives for the same Route; the empty object yields
\* the template Analysis.
C23_MissingFieldsAreTemplateFields ==
  Accepted =>
    \A response \in Responses :
      (response.json.t = "object" /\ tryAnalyze(current, response) = ret) =>
        \A f \in AllAnalysisFields \ DOMAIN response.json.fields :
          Get(ret.value, f) = Get(generateFallbackAnalysis(current), f)

\* the request and response schemas the analyses of the results hold
SchemasOfResults ==
  { s \in { Get(analysisResults[k].analysis, f) :
              k \in DOMAIN analysisResults, f \in {"requestSchema", "responseSchema"} } :
      Truthy(s) }

\* C29: every structurally distinct request or response schema of the
\* analyses is a value of components.schemas: registering a later schema
\* never overwrites or drops an earlier, different one, also when both
\* derive the same name from resource and suffix.
C29_EverySchemaIsKept ==
  pc = "done" =>
    \A s \in SchemasOfResults :
      \E n \in DOMAIN ComponentSchemas : stringify(ComponentSchemas[n]) = stringify(s)

\* C30: the responses of an operation assembled from a template-strategy
\* Analysis are exactly the status codes that apply to the Route, each with
\* a defined description: no code that does not apply to the verb or the
\* path shape is a response.
C30_TemplateResponseCodes ==
  pc = "done" =>
    \A k \in DOMAIN analysisResults :
      LET route == analysisResults[k].route
          responses == Get(OperationOf(analysisResults[k]), "responses")
      IN ((\A h \in (k + 1)..Len(analysisResults) :
             ~SameOperationKey(analysisResults[k], analysisResults[h]))
          /\ analysisResults[k].analysis = generateFallbackAnalysis(route)) =>
           /\ DOMAIN responses.fields = ConventionalCodes(route)
           /\ \A code \in DOMAIN responses.fields :
                Get(responses.fields[code], "description").t = "string"

\* extractRoute has returned a Route for the call expression
RouteExtracted == call # Null /\ call.route # Undefined /\ call.route # Null

IsFunctionLiteral(node) == node.type \in {"FunctionExpression", "ArrowFunctionExpression"}

\* C25: when the last argument of a route call is a bare identifier the
\* Route records the handler as a named reference and its handler source is
\* null; handler source text is captured only when the last argument is a
\* function literal, and a call with only the path argument has no handler
\* and no handler source.
C25_HandlerSourceOnlyOfFunctionLiterals ==
  RouteExtracted =>
    LET args == call.node.arguments
        last == args[Len(args)]
        handler == Get(call.route, "handler")
        handlerCode == Get(call.route, "handlerCode")
    IN /\ (Len(args) > 1 /\ last.type = "Identifier") =>
            /\ handler = Obj([type |-> Str(<<"reference">>), name |-> Str(<<last.name>>)])
            /\ handlerCode = Null
       /\ handlerCode # Null => (Len(args) > 1 /\ IsFunctionLiteral(last))
       /\ Len(args) = 1 => (handler = Null /\ handlerCode = Null)

\* C26: Route.middleware has one entry for each argument strictly between
\* the path and the handler, in argument order: the name of a bare
\* identifier, name() for a call expression; the first and the last argument
\* give no entry.
C26_MiddlewareBetweenPathAndHandler ==
  RouteExtracted =>
    LET args == call.node.arguments
        between == SubSeq(args, 2, Len(args) - 1)
        middleware == Get(call.route, "middleware").items
    IN /\ Len(middleware) = Len(between)
       /\ \A k \in DOMAIN between :
            /\ between[k].type = "Identifier" => middleware[k] = Str(<<between[k].name>>)
            /\ (between[k].type = "CallExpression" /\ between[k].callee.type = "Identifier") =>
                 middleware[k] = Str(<<between[k].callee.name, "()">>)

\* C27: for a template-literal path with the literal segments q0..qk the
\* extracted path is q0 + ':param0' + q1 + ':param1' + ... + qk: every
\* segment is in the path verbatim, in order, and between segment i and
\* segment i+1 stands the placeholder :param<i>.
C27_TemplatePathPlaceholders ==
  (RouteExtracted /\ call.node.argument.type = "TemplateLiteral") =>
    LET quasis == call.node.argument.quasis
        path == Get(call.route, "path").v
        placeholder(n) == <<":", "p", "a", "r", "a", "m", digit(n)>>
        offset[n \in 1..Len(quasis)] ==
          IF n = 1 THEN 0 ELSE offset[n - 1] + Len(quasis[n - 1]) + Len(placeholder(0))
    IN /\ Len(path) = offset[Len(quasis)] + Len(quasis[Len(quasis)])
       /\ \A n \in 1..Len(quasis) :
            SubSeq(path, offset[n] + 1, offset[n] + Len(quasis[n])) = quasis[n]
       /\ \A n \in 1..(Len(quasis) - 1) :
            SubSeq(path, offset[n] + Len(quasis[n]) + 1, offset[n + 1]) = placeholder(n - 1)

\* app.get of the template /u${id}/${id} gives the path /u:param0/:param1
C27_Witness ==
  /\ RouteExtracted
  /\ call.node.argument.type = "TemplateLiteral"
  /\ call.node.argument.quasis = << <<"/", "u">>, <<"/">>, <<>> >>
  /\ Get(call.route, "path") =
       Str(<<"/", "u", ":", "p", "a", "r", "a", "m", "0", "/", ":", "p", "a", "r", "a", "m", "1">>)
  /\ Get(call.route, "parameters").items # <<>>

\* the part of a text from its first { to its last }
FirstToLast(text) ==
  LET opening == CHOOSE k \in DOMAIN text : text[k] = "{" /\ \A h \in 1..(k - 1) : text[h] # "{"
      closing == CHOOSE k \in DOMAIN text :
                   text[k] = "}" /\ \A h \in (k + 1)..Len(text) : text[h] # "}"
  IN SubSeq(text, opening, closing)

\* C24: for a response text that holds a JSON object wrapped only in code
\* fences and prose, extractJSON returns exactly the text from the first {
\* to the last }, and a text that is one JSON object is returned as it is,
\* whatever words its string values hold.
C24_ExtractJSONIsFirstToLastBrace ==
  (extraction # Null /\ extraction.jsonContent # Undefined) =>
    extraction.jsonContent = Str(FirstToLast(extraction.content))

\* the frameworks with patterns among those examined so far, by position
Examined == { n \in 1..(detection.k - 1) : routePatternsOf(detection.frameworks[n]) # <<>> }

\* the accumulated score of the framework examined at position n
ScoreAt(n) == examineFramework(detection.content, detection.frameworks[n]).frameworkConfidence

\* C22: the framework reported is the one with the highest accumulated
\* score, unclamped, and among frameworks with equal scores the one examined
\* first: a framework examined later never displaces an earlier one whose
\* score is higher or equal.
C22_HighestScoreFirstOnTies ==
  (detection # Null /\ detection.results.framework # Str(<<"unknown">>)) =>
    LET scoring == { n \in Examined : ScoreAt(n) > 0 }
    IN IF scoring = {}
       THEN detection.results.framework = Null
       ELSE LET best == CHOOSE n \in scoring :
                          \A m \in scoring :
                            ScoreAt(m) < ScoreAt(n) \/ (ScoreAt(m) = ScoreAt(n) /\ n <= m)
            IN detection.results.framework = Str(<<detection.frameworks[best]>>)

\* C28: once the server has started, GET /spec returns the most recent
\* specification that was loaded successfully: the loaded file at start, the
\* reloaded one after a successful reload, the one served before after a
\* reload that fails; start fails without listening when the initial load
\* fails.
C28_ServesTheLastLoadedSpec ==
  [][/\ server'.state = "started" =>
          /\ server'.spec = server'.loaded
          /\ Truthy(server'.spec)
     /\ (server.state = "constructed" /\ server'.state = "started") =>
          (server'.listening /\ server'.spec = server.file.parsed)
     /\ (server.state = "constructed" /\ loadSpec(server.file) = Null) =>
          (server'.state \in {"constructed", "failed"} /\ ~server'.listening)
     /\ GetSpec => server'.response = server.loaded]_vars

\* with watching enabled the file was replaced by another document, which
\* was reloaded, and then by text that does not parse, whose reload failed:
\* GET /spec returns the other document
C28_Witness ==
  /\ server # Null
  /\ server.state = "started"
  /\ server.watch
  /\ server.file = SpecFile(TRUE, Undefined)
  /\ server.changes = 0
  /\ server.reads = <<>>
  /\ server.spec # server.first
  /\ server.response = server.spec

\* C21: after an interruption signal arrives during batch analysis no new
\* request is issued to the generation service, a request in flight is left
\* to complete or time out, and the output file is never left partially
\* written.
C21_InterruptionLeavesNothingHalfDone ==
  pc = "interrupted in batch" =>
    /\ \A k \in DOMAIN outcomes : outcomes[k] # "abandoned"
    /\ output # Null => output.spec # Undefined

====
